---- MODULE Spec2Model ----
(***************************************************************************)
(* ScraptPress: coordination of a paginated search against a rate-limited  *)
(* upstream.  The module models the in-memory scraping locks, the          *)
(* synchronous search path with its background prefetch, and the           *)
(* asynchronous job path (admission counters, broker, worker, persisted    *)
(* job status).                                                            *)
(*                                                                         *)
(* Strings are sequences of one-character strings; a template string such  *)
(* as `${q}:page:${p}:limit:${l}` is the tuple of its parts.  Time is the   *)
(* value of Date.now() in milliseconds.                                    *)
(***************************************************************************)
EXTENDS Integers, Sequences, FiniteSets, TLC

VARIABLES
    locks,      \* ScrapingLockService.locks : Map<lockKey, LockInfo>
    now,        \* Date.now()
    grants,     \* history: tokens handed out by acquireLock, not yet released
    last,       \* history: the last call made on the lock service
    owner,      \* history: which task installed the lock of each key
    redis,      \* the Redis store behind CacheService: key -> value, expiry
    isConnected,\* CacheService.isConnected
    l2,         \* Firestore searches/{query}/cache/{page}-{limit}
    req,        \* the intelligentSearch calls in progress
    pf,         \* the background prefetch started by each call
    jobsDb,     \* Firestore jobs/{batchId}
    bull,       \* the SCRAPE_COPART queue of the broker, in order of arrival
    nextBatch,  \* the batchIds handed out so far
    ledger,     \* history: per batchId, the counter calls made and how the job ended
    lastAdm     \* history: the last call made on the security service

vars == <<locks, now, grants, last, owner, redis, isConnected, l2, req, pf,
          jobsDb, bull, nextBatch, ledger, lastAdm>>

\* the variables of the call-level model of the lock service
lockOnly == <<grants, last>>

\* the variables of the search model that the lock service does not have
searchOnly == <<owner, redis, isConnected, l2, req, pf>>

\* the variables of the asynchronous job path
jobOnly == <<jobsDb, bull, nextBatch, ledger>>

\* what a call on the lock service leaves alone
notLock == <<searchOnly, jobOnly, lastAdm>>

\* what a step of the synchronous path leaves alone
notSearch == <<lockOnly, jobOnly, lastAdm>>

\* ------------------------------------------------------------------------
\* Bounds
\* ------------------------------------------------------------------------
MaxTicks == 2
TickMs == 900000
NumRand == 2
MaxPage == 2
NumReqs == 2
NumJobReqs == 2
NumRaceReqs == 2
MaxOverCap == 1
MaxRetryAttempts == 7
MaxStrategies == 4

\* ------------------------------------------------------------------------
\* Strings
\* ------------------------------------------------------------------------
Whitespace == {" ", "\t", "\n"}

UpperCase == <<"A", "B", "C", "D", "E", "F", "G", "H", "I", "J", "K", "L", "M",
               "N", "O", "P", "Q", "R", "S", "T", "U", "V", "W", "X", "Y", "Z">>

LowerCase == <<"a", "b", "c", "d", "e", "f", "g", "h", "i", "j", "k", "l", "m",
               "n", "o", "p", "q", "r", "s", "t", "u", "v", "w", "x", "y", "z">>

ToLowerChar(c) ==
    IF \E i \in 1..Len(UpperCase) : UpperCase[i] = c
    THEN LowerCase[CHOOSE i \in 1..Len(UpperCase) : UpperCase[i] = c]
    ELSE c

toLowerCase(s) == [i \in 1..Len(s) |-> ToLowerChar(s[i])]

RECURSIVE trimStart(_)
trimStart(s) ==
    IF s # <<>> /\ Head(s) \in Whitespace THEN trimStart(Tail(s)) ELSE s

RECURSIVE trimEnd(_)
trimEnd(s) ==
    IF s # <<>> /\ s[Len(s)] \in Whitespace THEN trimEnd(SubSeq(s, 1, Len(s) - 1)) ELSE s

trim(s) == trimEnd(trimStart(s))

\* ------------------------------------------------------------------------
\* ScrapingLockService
\* ------------------------------------------------------------------------
LOCK_TIMEOUT_MS == 15 * 60 * 1000

NoLockId == <<>>

getLockKey(query, page, limit) == <<trim(toLowerCase(query)), page, limit>>

MapDelete(m, k) == [x \in (DOMAIN m) \ {k} |-> m[x]]

MapSet(m, k, v) == [x \in (DOMAIN m) \cup {k} |-> IF x = k THEN v ELSE m[x]]

\* acquireLock with the expiry test dropped: an existing lock is always replaced
acquireLock_NoCheck(L, t, r, query, page, limit) ==
    LET lockKey == getLockKey(query, page, limit)
        lockId  == <<t, r>>
    IN [locks |-> MapSet(L, lockKey,
                         [query |-> query, page |-> page, limit |-> limit,
                          startTime |-> t, lockId |-> lockId]),
        ret |-> lockId]

\* acquireLock(query, page, limit) at time t, r the random part of the id
acquireLock(L, t, r, query, page, limit) ==
    LET lockKey == getLockKey(query, page, limit)
        held    == lockKey \in DOMAIN L
        elapsed == t - L[lockKey].startTime
        lockId  == <<t, r>>
        L1      == IF held /\ elapsed > LOCK_TIMEOUT_MS THEN MapDelete(L, lockKey) ELSE L
    IN IF held /\ ~(elapsed > LOCK_TIMEOUT_MS)
       THEN [locks |-> L, ret |-> NoLockId]
       ELSE [locks |-> MapSet(L1, lockKey,
                              [query |-> query, page |-> page, limit |-> limit,
                               startTime |-> t, lockId |-> lockId]),
             ret |-> lockId]

\* releaseLock without the lockId comparison
releaseLock_NoVerify(L, query, page, limit, lockId) ==
    LET lockKey == getLockKey(query, page, limit)
    IN IF lockKey \notin DOMAIN L
       THEN [locks |-> L, ret |-> FALSE]
       ELSE [locks |-> MapDelete(L, lockKey), ret |-> TRUE]

\* releaseLock with the comparison the wrong way round: the owner is refused
releaseLock_Inverted(L, query, page, limit, lockId) ==
    LET lockKey == getLockKey(query, page, limit)
    IN IF lockKey \notin DOMAIN L
       THEN [locks |-> L, ret |-> FALSE]
       ELSE IF L[lockKey].lockId = lockId
            THEN [locks |-> L, ret |-> FALSE]
            ELSE [locks |-> MapDelete(L, lockKey), ret |-> TRUE]

releaseLock(L, query, page, limit, lockId) ==
    LET lockKey == getLockKey(query, page, limit)
    IN IF lockKey \notin DOMAIN L
       THEN [locks |-> L, ret |-> FALSE]
       ELSE IF L[lockKey].lockId # lockId
            THEN [locks |-> L, ret |-> FALSE]
            ELSE [locks |-> MapDelete(L, lockKey), ret |-> TRUE]

\* isLocked that never looks at the age of the lock
isLocked_NoExpiry(L, t, query, page, limit) ==
    LET lockKey == getLockKey(query, page, limit)
    IN [locks |-> L, ret |-> lockKey \in DOMAIN L]

\* isLocked with the age comparison reversed: a fresh lock is dropped
isLocked_Reversed(L, t, query, page, limit) ==
    LET lockKey == getLockKey(query, page, limit)
    IN IF lockKey \notin DOMAIN L
       THEN [locks |-> L, ret |-> FALSE]
       ELSE IF t - L[lockKey].startTime <= LOCK_TIMEOUT_MS
            THEN [locks |-> MapDelete(L, lockKey), ret |-> FALSE]
            ELSE [locks |-> L, ret |-> TRUE]

isLocked(L, t, query, page, limit) ==
    LET lockKey == getLockKey(query, page, limit)
    IN IF lockKey \notin DOMAIN L
       THEN [locks |-> L, ret |-> FALSE]
       ELSE IF t - L[lockKey].startTime > LOCK_TIMEOUT_MS
            THEN [locks |-> MapDelete(L, lockKey), ret |-> FALSE]
            ELSE [locks |-> L, ret |-> TRUE]

cleanupExpiredLocks(L, t) ==
    LET expired == {k \in DOMAIN L : t - L[k].startTime > LOCK_TIMEOUT_MS}
    IN [locks |-> [k \in (DOMAIN L) \ expired |-> L[k]],
        ret |-> Cardinality(expired)]

\* ------------------------------------------------------------------------
\* The lock service driven by arbitrary callers
\* ------------------------------------------------------------------------
LockQueries == {<<"h", "o">>, <<"H", "o", " ">>}

Pages == 1..MaxPage

Limits == {10}

Times == {i * TickMs : i \in 0..(MaxTicks + 1)}

LockIds == {<<t, r>> : t \in {x \in Times : x <= now}, r \in 1..NumRand}

\* what the map holds for a key before a call: "none", "live" or "expired"
PreState(L, t, lockKey) ==
    IF lockKey \notin DOMAIN L THEN "none"
    ELSE IF t - L[lockKey].startTime > LOCK_TIMEOUT_MS THEN "expired" ELSE "live"

NoCall == [op |-> "none", key |-> <<>>, id |-> NoLockId, ret |-> FALSE,
           pre |-> "none", preId |-> NoLockId, changed |-> FALSE]

\* the record of one call: its arguments, its return value, what the map held
\* for the key before it and whether the map is different after it
Call(op, key, id, res) ==
    [op |-> op, key |-> key, id |-> id, ret |-> res.ret,
     pre |-> PreState(locks, now, key),
     preId |-> IF key \in DOMAIN locks THEN locks[key].lockId ELSE NoLockId,
     changed |-> res.locks # locks]

InitLock ==
    /\ locks = <<>>
    /\ now = 0
    /\ grants = {}
    /\ last = NoCall
    /\ owner = <<>>
    /\ redis = <<>>
    /\ isConnected = TRUE
    /\ l2 = <<>>
    /\ req = <<>>
    /\ pf = <<>>
    /\ jobsDb = <<>>
    /\ bull = <<>>
    /\ nextBatch = 0
    /\ ledger = <<>>
    /\ lastAdm = <<>>

Tick ==
    /\ now + TickMs <= MaxTicks * TickMs
    /\ now' = now + TickMs
    /\ UNCHANGED <<locks, grants, last, notLock>>

LockAcquire(q, p, l) ==
    \E r \in 1..NumRand :
        LET res == acquireLock(locks, now, r, q, p, l)
            k   == getLockKey(q, p, l)
        IN /\ locks' = res.locks
           /\ grants' = IF res.ret = NoLockId THEN grants
                         ELSE grants \cup {[key |-> k, lockId |-> res.ret, startTime |-> now]}
           /\ last' = Call("acquireLock", k, NoLockId, res)
           /\ UNCHANGED <<now, notLock>>

LockRelease(q, p, l) ==
    \E id \in LockIds :
        LET res == releaseLock(locks, q, p, l, id)
            k   == getLockKey(q, p, l)
        IN /\ locks' = res.locks
           /\ grants' = IF res.ret THEN {g \in grants : ~(g.key = k /\ g.lockId = id)}
                         ELSE grants
           /\ last' = Call("releaseLock", k, id, res)
           /\ UNCHANGED <<now, notLock>>

LockIsLocked(q, p, l) ==
    LET res == isLocked(locks, now, q, p, l)
        k   == getLockKey(q, p, l)
    IN /\ locks' = res.locks
       /\ last' = Call("isLocked", k, NoLockId, res)
       /\ UNCHANGED <<now, grants, notLock>>

LockCleanup ==
    LET res == cleanupExpiredLocks(locks, now)
    IN /\ locks' = res.locks
       /\ last' = [NoCall EXCEPT !.op = "cleanupExpiredLocks", !.changed = res.ret > 0]
       /\ UNCHANGED <<now, grants, notLock>>

NextLock ==
    \/ Tick
    \/ \E q \in LockQueries, p \in Pages, l \in Limits : LockAcquire(q, p, l)
    \/ \E q \in LockQueries, p \in Pages, l \in Limits : LockRelease(q, p, l)
    \/ \E q \in LockQueries, p \in Pages, l \in Limits : LockIsLocked(q, p, l)
    \/ LockCleanup

SpecLock == InitLock /\ [][NextLock]_vars

\* ------------------------------------------------------------------------
\* Properties of the lock service
\* ------------------------------------------------------------------------
LiveGrants(k) ==
    {g \in grants : g.key = k /\ ~(now - g.startTime > LOCK_TIMEOUT_MS)}

\* C1: for every key, at most one token handed out by acquireLock is neither
\* released nor older than the timeout, and an acquireLock made while the
\* key holds an unexpired lock returns null and leaves the map as it was.
C1_OneLivePerKey ==
    /\ \A g \in grants : Cardinality(LiveGrants(g.key)) <= 1
    /\ (last.op = "acquireLock" /\ last.pre = "live")
          => (last.ret = NoLockId /\ ~last.changed)

C1_Witness ==
    /\ last.op = "acquireLock"
    /\ last.pre = "live"
    /\ last.ret = NoLockId
    /\ Cardinality(LiveGrants(last.key)) = 1

\* C2: releaseLock called with a lockId that is not the one stored for the
\* key returns false and leaves the lock map unchanged.
C2_WrongTokenKeepsLock ==
    (last.op = "releaseLock" /\ last.pre # "none" /\ last.id # last.preId)
        => (last.ret = FALSE /\ ~last.changed)

\* holder A's token has expired, B holds the key, A's release is refused
C2_Witness ==
    /\ last.op = "releaseLock"
    /\ last.pre = "live"
    /\ last.ret = FALSE
    /\ \E g \in grants : /\ g.key = last.key
                         /\ g.lockId = last.id
                         /\ now - g.startTime > LOCK_TIMEOUT_MS
    /\ last.key \in DOMAIN locks
    /\ locks[last.key].lockId = last.preId
    /\ last.preId # last.id

\* C5: a lock older than the timeout is absent: isLocked returns false for
\* its key and deletes the entry, and an acquireLock on a key without an
\* unexpired lock succeeds and installs a new lockId.
C5_ExpiredLockIsAbsent ==
    /\ (last.op = "isLocked" /\ last.pre = "expired")
          => (last.ret = FALSE /\ last.key \notin DOMAIN locks)
    /\ (last.op = "acquireLock" /\ last.pre \in {"none", "expired"})
          => /\ last.ret # NoLockId
             /\ last.ret # last.preId
             /\ last.key \in DOMAIN locks
             /\ locks[last.key].lockId = last.ret
             /\ locks[last.key].startTime = last.ret[1]

C5_Witness ==
    /\ last.op = "isLocked"
    /\ last.pre = "expired"
    /\ last.ret = FALSE
    /\ last.changed

\* ------------------------------------------------------------------------
\* CacheService (Redis, L1)
\* ------------------------------------------------------------------------
\* get: <<>> stands for null, <<v>> for the stored value v
\* get that answers from the store whether or not the client is connected
cacheGet_Connected(R, conn, t, key) ==
    IF key \in DOMAIN R /\ R[key].expiresAt > t THEN <<R[key].value>>
    ELSE <<>>

cacheGet(R, conn, t, key) ==
    IF ~conn THEN <<>>
    ELSE IF key \in DOMAIN R /\ R[key].expiresAt > t THEN <<R[key].value>>
    ELSE <<>>

\* set with setEx(key, ttlSeconds, value)
cacheSet(R, conn, t, key, value, ttlSeconds) ==
    IF ~conn THEN R
    ELSE MapSet(R, key, [value |-> value, expiresAt |-> t + ttlSeconds * 1000])

SEARCH_TTL_SECONDS == 3600

\* the field of a vehicle that holds a Date (BatchVehicle.timestamp); its
\* value is <<kind, milliseconds>>
DateField == "timestamp"

\* what JSON.parse(JSON.stringify(x)) makes of a Date, of a Firestore
\* Timestamp and of a string
JsonKind(kind) ==
    CASE kind = "Date" -> "string"
      [] kind = "Timestamp" -> "object"
      [] OTHER -> kind

\* JSON.parse(JSON.stringify(vehicles))
jsonRoundTrip(vehicles) ==
    [i \in 1..Len(vehicles) |->
        [f \in DOMAIN vehicles[i] |->
            IF f = DateField
            THEN <<JsonKind(vehicles[i][f][1]), vehicles[i][f][2]>>
            ELSE vehicles[i][f]]]

\* cacheSearchResults that stores nothing
cacheSearchResults_Dropped(R, conn, t, query, page, count, results) == R

cacheSearchResults(R, conn, t, query, page, count, results) ==
    cacheSet(R, conn, t, <<"search", query, page, count>>, jsonRoundTrip(results),
             SEARCH_TTL_SECONDS)

getCachedSearchResults(R, conn, t, query, page, count) ==
    cacheGet(R, conn, t, <<"search", query, page, count>>)

\* (await cache.get(key)) || 0
OrZero(res) == IF res = <<>> THEN 0 ELSE res[1]

\* ------------------------------------------------------------------------
\* BatchRepository pages (Firestore, L2)
\* ------------------------------------------------------------------------
PAGE_TTL_MS == 7 * 24 * 60 * 60 * 1000

WithPageIndex(v, index) ==
    [f \in (DOMAIN v) \cup {"pageIndex"} |-> IF f = "pageIndex" THEN index ELSE v[f]]

\* a Date written to Firestore is read back as a Timestamp
FirestoreKind(kind) == IF kind = "Date" THEN "Timestamp" ELSE kind

\* the vehicle as the Firestore document holds it
firestoreValue(v) ==
    [f \in DOMAIN v |-> IF f = DateField THEN <<FirestoreKind(v[f][1]), v[f][2]>> ELSE v[f]]

savePage(D, t, query, page, limit, vehicles) ==
    LET normalizedQuery == trim(toLowerCase(query))
        cacheKey == <<page, limit>>
    IN MapSet(D, <<normalizedQuery, cacheKey>>,
              [metadata |-> [page |-> page, limit |-> limit, size |-> Len(vehicles),
                             query |-> normalizedQuery, expiresAt |-> t + PAGE_TTL_MS],
               vehicles |-> [i \in 1..Len(vehicles) |->
                                WithPageIndex(firestoreValue(vehicles[i]), i - 1)]])

\* getPage that ignores expiresAt
getPage_NoExpiry(D, t, query, page, limit) ==
    LET normalizedQuery == trim(toLowerCase(query))
        ref == <<normalizedQuery, <<page, limit>>>>
    IN IF ref \notin DOMAIN D THEN [l2 |-> D, ret |-> <<>>]
       ELSE [l2 |-> D, ret |-> <<D[ref].vehicles>>]

\* getPage: ret is <<>> for null, <<vehicles>> otherwise
getPage(D, t, query, page, limit) ==
    LET normalizedQuery == trim(toLowerCase(query))
        ref == <<normalizedQuery, <<page, limit>>>>
    IN IF ref \notin DOMAIN D THEN [l2 |-> D, ret |-> <<>>]
       ELSE IF D[ref].metadata.expiresAt < t
            THEN [l2 |-> MapDelete(D, ref), ret |-> <<>>]
            ELSE [l2 |-> D, ret |-> <<D[ref].vehicles>>]

\* cachedPage && cachedPage.length > 0
IsHit(res) == res # <<>> /\ Len(res[1]) > 0

\* ------------------------------------------------------------------------
\* JobQueueSecurityService
\* ------------------------------------------------------------------------
RATE_LIMIT_IP == 10
RATE_LIMIT_API_KEY == 100
RATE_LIMIT_WINDOW == 60000
MAX_JOBS_PER_IP == 3
MAX_JOBS_PER_API_KEY == 10
QUERY_MIN_LENGTH == 2
QUERY_MAX_LENGTH == 100
MAX_SCRAPE_LIMIT == 100
MIN_LIMIT == 1
MAX_PAGE_NUMBER == 50
COUNTER_TTL_SECONDS == 3600

NoApiKey == ""

\* apiKey || clientIp
Identifier(clientIp, apiKey) == IF apiKey # NoApiKey THEN apiKey ELSE clientIp

\* clientIp || 'unknown'
IpOrUnknown(clientIp) == IF clientIp = "" THEN "unknown" ELSE clientIp

MaxRequests(apiKey) == IF apiKey # NoApiKey THEN RATE_LIMIT_API_KEY ELSE RATE_LIMIT_IP

MaxJobs(apiKey) == IF apiKey # NoApiKey THEN MAX_JOBS_PER_API_KEY ELSE MAX_JOBS_PER_IP

\* Math.ceil(windowMs / 1000)
RetryAfterSeconds == (RATE_LIMIT_WINDOW + 999) \div 1000

\* currentCount >= config.maxRequests
RateLimitExceeded(currentCount, apiKey) == currentCount >= MaxRequests(apiKey)

\* currentJobs >= maxJobs, with the comparison off by one
JobsLimitReached_OffByOne(currentJobs, apiKey) == currentJobs > MaxJobs(apiKey)

\* currentJobs >= maxJobs
JobsLimitReached(currentJobs, apiKey) == currentJobs >= MaxJobs(apiKey)

RateKey(clientIp, apiKey) == <<"ratelimit", Identifier(clientIp, apiKey)>>

ConcurrentKey(clientIp, apiKey) == <<"concurrent", Identifier(clientIp, apiKey)>>

checkRateLimit(R, conn, t, clientIp, apiKey) ==
    LET currentCount == OrZero(cacheGet(R, conn, t, RateKey(clientIp, apiKey)))
    IN IF RateLimitExceeded(currentCount, apiKey)
       THEN [redis |-> R, allowed |-> FALSE, reason |-> "rate-limit",
             retryAfterSeconds |-> RetryAfterSeconds]
       ELSE [redis |-> cacheSet(R, conn, t, RateKey(clientIp, apiKey), currentCount + 1,
                                RetryAfterSeconds),
             allowed |-> TRUE, reason |-> "", retryAfterSeconds |-> 0]

checkConcurrentJobs(R, conn, t, clientIp, apiKey) ==
    LET currentJobs == OrZero(cacheGet(R, conn, t, ConcurrentKey(clientIp, apiKey)))
    IN IF JobsLimitReached(currentJobs, apiKey)
       THEN [allowed |-> FALSE, reason |-> "concurrent-limit"]
       ELSE [allowed |-> TRUE, reason |-> ""]

canSubmitJob(R, conn, t, clientIp, apiKey) ==
    LET rateLimitCheck   == checkRateLimit(R, conn, t, clientIp, apiKey)
        concurrencyCheck == checkConcurrentJobs(rateLimitCheck.redis, conn, t, clientIp, apiKey)
    IN IF ~rateLimitCheck.allowed THEN rateLimitCheck
       ELSE IF ~concurrencyCheck.allowed
            THEN [redis |-> rateLimitCheck.redis, allowed |-> FALSE,
                  reason |-> concurrencyCheck.reason, retryAfterSeconds |-> 0]
            ELSE [redis |-> rateLimitCheck.redis, allowed |-> TRUE, reason |-> "",
                  retryAfterSeconds |-> 0]

incrementConcurrentJobs(R, conn, t, clientIp, apiKey) ==
    LET current == OrZero(cacheGet(R, conn, t, ConcurrentKey(clientIp, apiKey)))
    IN cacheSet(R, conn, t, ConcurrentKey(clientIp, apiKey), current + 1, COUNTER_TTL_SECONDS)

decrementConcurrentJobs(R, conn, t, clientIp, apiKey) ==
    LET current == OrZero(cacheGet(R, conn, t, ConcurrentKey(clientIp, apiKey)))
    IN IF current > 0
       THEN cacheSet(R, conn, t, ConcurrentKey(clientIp, apiKey), current - 1,
                     COUNTER_TTL_SECONDS)
       ELSE R

PREMIUM_API_KEYS == {}

calculatePriority(apiKey, limit) ==
    IF apiKey # NoApiKey /\ apiKey \in PREMIUM_API_KEYS THEN "high"
    ELSE IF limit # 0 /\ limit <= 20 THEN "normal"
    ELSE "low"

Digits == {"0", "1", "2", "3", "4", "5", "6", "7", "8", "9"}

\* /^[a-zA-Z0-9\s\-_.,()]+$/
AllowedChars ==
    {UpperCase[i] : i \in 1..Len(UpperCase)} \cup {LowerCase[i] : i \in 1..Len(LowerCase)}
        \cup Digits \cup Whitespace \cup {"-", "_", ".", ",", "(", ")"}

Blacklist ==
    { <<"<", "s", "c", "r", "i", "p", "t", ">">>,
      <<"j", "a", "v", "a", "s", "c", "r", "i", "p", "t", ":">>,
      <<"o", "n", "e", "r", "r", "o", "r", "=">>,
      <<"o", "n", "c", "l", "i", "c", "k", "=">> }

\* s.includes(sub)
Includes(s, sub) ==
    \E i \in 0..(Len(s) - Len(sub)) : SubSeq(s, i + 1, i + Len(sub)) = sub

\* s.replace(/\s+/g, ' ')
RECURSIVE collapseWhitespace(_)
collapseWhitespace(s) ==
    IF s = <<>> THEN <<>>
    ELSE IF Head(s) \in Whitespace
         THEN <<" ">> \o collapseWhitespace(trimStart(s))
         ELSE <<Head(s)>> \o collapseWhitespace(Tail(s))

validateQuery(query) ==
    IF Len(query) < QUERY_MIN_LENGTH THEN [valid |-> FALSE, sanitized |-> <<>>]
    ELSE IF Len(query) > QUERY_MAX_LENGTH THEN [valid |-> FALSE, sanitized |-> <<>>]
    ELSE IF \E b \in Blacklist : Includes(toLowerCase(query), toLowerCase(b))
         THEN [valid |-> FALSE, sanitized |-> <<>>]
    ELSE IF \E i \in 1..Len(query) : query[i] \notin AllowedChars
         THEN [valid |-> FALSE, sanitized |-> <<>>]
    ELSE [valid |-> TRUE, sanitized |-> collapseWhitespace(trim(query))]

\* validatePagination that accepts everything
validatePagination_Lenient(page, limit) == TRUE

validatePagination(page, limit) ==
    /\ page >= 1
    /\ page <= MAX_PAGE_NUMBER
    /\ limit >= MIN_LIMIT
    /\ limit <= MAX_SCRAPE_LIMIT

\* ------------------------------------------------------------------------
\* SearchController.intelligentSearch, synchronous path, and triggerPrefetch
\* ------------------------------------------------------------------------
WAIT_FOR_SCRAPING_MS == 180000

\* what platform.scrape can hand back: a throw, no vehicle, or vehicles
Vehicle1 == [lot_number |-> 1]

\* the test that takes every result for a page worth caching
HasVehicles_Always(vehicles) == TRUE

\* vehicles && vehicles.length > 0
HasVehicles(vehicles) == Len(vehicles) > 0

FetchOutcomes ==
    { [ok |-> FALSE, vehicles |-> <<>>],
      [ok |-> TRUE, vehicles |-> <<>>],
      [ok |-> TRUE, vehicles |-> <<Vehicle1>>] }

IdleReq ==
    [pc |-> "idle", query |-> <<>>, page |-> 0, limit |-> 0, clientIp |-> "",
     apiKey |-> NoApiKey, async |-> FALSE, sanitizedQuery |-> <<>>, count |-> 0,
     lockId |-> NoLockId, startTime |-> 0, vehicles |-> <<>>, batchId |-> 0,
     fetches |-> 0, out |-> "none"]

NoPrefetch ==
    [pc |-> "none", query |-> <<>>, page |-> 0, limit |-> 0,
     lockId |-> NoLockId, vehicles |-> <<>>]

DonePrefetch == [NoPrefetch EXCEPT !.pc = "done"]

\* triggerPrefetch that targets the current page
StartPrefetch_SamePage(query, currentPage, limitNum) ==
    [pc |-> "getPage", query |-> query, page |-> currentPage, limit |-> limitNum,
     lockId |-> NoLockId, vehicles |-> <<>>]

\* triggerPrefetch(query, currentPage, limitNum) up to its first await
StartPrefetch(query, currentPage, limitNum) ==
    [pc |-> "getPage", query |-> query, page |-> currentPage + 1, limit |-> limitNum,
     lockId |-> NoLockId, vehicles |-> <<>>]

\* the call is over: only its outcome (the source of the result, or the
\* error) and the batchId it returned are kept
Finish(rq, out) ==
    [IdleReq EXCEPT !.pc = "done", !.out = out, !.batchId = rq.batchId]

\* the call returns a page: the source, query, page, limit and vehicles of
\* the result are kept, with the number of platform.scrape calls it made
FinishWith(rq, out, vehicles) ==
    [Finish(rq, out) EXCEPT !.vehicles = vehicles, !.sanitizedQuery = rq.sanitizedQuery,
                            !.page = rq.page, !.limit = rq.limit, !.fetches = rq.fetches]

\* the history of who installed which lock follows the lock map
OwnerAfter(L, k, who) ==
    [x \in DOMAIN L |-> IF x = k THEN who ELSE IF x \in DOMAIN owner THEN owner[x] ELSE <<>>]

OwnerKept(L) == [x \in (DOMAIN L) \cap (DOMAIN owner) |-> owner[x]]

\* canSubmitJob, checkRateLimit: the read of the request counter
ReqStart(r, query, page, limit, clientIp, apiKey, async) ==
    LET ip           == IpOrUnknown(clientIp)
        currentCount == OrZero(cacheGet(redis, isConnected, now, RateKey(ip, apiKey)))
        rq == [IdleReq EXCEPT !.query = query, !.page = page, !.limit = limit,
                              !.clientIp = ip, !.apiKey = apiKey, !.async = async]
    IN /\ req[r].pc = "idle"
       /\ req' = [req EXCEPT ![r] =
                    IF RateLimitExceeded(currentCount, apiKey)
                    THEN Finish(rq, "rate-limit")
                    ELSE [rq EXCEPT !.pc = "rateSet", !.count = currentCount]]
       /\ UNCHANGED <<locks, now, owner, redis, isConnected, l2, pf, notSearch>>

\* checkRateLimit: the write of the request counter
ReqRateSet(r) ==
    LET rq == req[r]
    IN /\ rq.pc = "rateSet"
       /\ redis' = cacheSet(redis, isConnected, now, RateKey(rq.clientIp, rq.apiKey),
                            rq.count + 1, RetryAfterSeconds)
       /\ req' = [req EXCEPT ![r].pc = "concurrentGet", ![r].count = 0]
       /\ UNCHANGED <<locks, now, owner, isConnected, l2, pf, notSearch>>

\* checkConcurrentJobs, then validateQuery and validatePagination
ReqConcurrentGet(r) ==
    LET rq          == req[r]
        currentJobs == OrZero(cacheGet(redis, isConnected, now,
                                       ConcurrentKey(rq.clientIp, rq.apiKey)))
        qv          == validateQuery(rq.query)
    IN /\ rq.pc = "concurrentGet"
       /\ req' = [req EXCEPT ![r] =
                    IF JobsLimitReached(currentJobs, rq.apiKey)
                    THEN Finish(rq, "concurrent-limit")
                    ELSE IF ~qv.valid THEN Finish(rq, "invalid-query")
                    ELSE IF ~validatePagination(rq.page, rq.limit)
                         THEN Finish(rq, "invalid-pagination")
                    ELSE [rq EXCEPT !.pc = "l1Get", !.sanitizedQuery = qv.sanitized]]
       /\ UNCHANGED <<locks, now, owner, redis, isConnected, l2, pf, notSearch>>

\* 1. L1 lookup
ReqL1Get(r) ==
    LET rq  == req[r]
        res == getCachedSearchResults(redis, isConnected, now,
                                      rq.sanitizedQuery, rq.page, rq.limit)
    IN /\ rq.pc = "l1Get"
       /\ IF IsHit(res)
          THEN /\ pf' = [pf EXCEPT ![r] = StartPrefetch(rq.sanitizedQuery, rq.page, rq.limit)]
               /\ req' = [req EXCEPT ![r] = FinishWith(rq, "redis", res[1])]
          ELSE /\ req' = [req EXCEPT ![r].pc = "l2Get"]
               /\ UNCHANGED pf
       /\ UNCHANGED <<locks, now, owner, redis, isConnected, l2, notSearch>>

\* 2. L2 lookup; on a miss in sync mode, isLocked and acquireLock follow
\* without an await in between
ReqL2GetSync(r) ==
    LET rq  == req[r]
        res == getPage(l2, now, rq.sanitizedQuery, rq.page, rq.limit)
        lk  == isLocked(locks, now, rq.sanitizedQuery, rq.page, rq.limit)
        k   == getLockKey(rq.sanitizedQuery, rq.page, rq.limit)
    IN /\ rq.pc = "l2Get"
       /\ ~rq.async \/ IsHit(res.ret)
       /\ l2' = res.l2
       /\ IF IsHit(res.ret)
          THEN /\ redis' = cacheSearchResults(redis, isConnected, now, rq.sanitizedQuery,
                                              rq.page, rq.limit, res.ret[1])
               /\ pf' = [pf EXCEPT ![r] = StartPrefetch(rq.sanitizedQuery, rq.page, rq.limit)]
               /\ req' = [req EXCEPT ![r] = FinishWith(rq, "cache", res.ret[1])]
               /\ UNCHANGED <<locks, owner>>
          ELSE IF lk.ret
          THEN /\ req' = [req EXCEPT ![r].pc = "waitForScraping", ![r].startTime = now]
               /\ locks' = lk.locks
               /\ owner' = OwnerKept(lk.locks)
               /\ UNCHANGED <<redis, pf>>
          ELSE \E rnd \in 1..NumRand :
                 LET acq == acquireLock(lk.locks, now, rnd, rq.sanitizedQuery, rq.page, rq.limit)
                 IN /\ locks' = acq.locks
                    /\ IF acq.ret = NoLockId
                       THEN /\ req' = [req EXCEPT ![r] = Finish(rq, "no-lock")]
                            /\ owner' = OwnerKept(acq.locks)
                       ELSE /\ req' = [req EXCEPT ![r].pc = "scrape", ![r].lockId = acq.ret,
                                                  ![r].fetches = @ + 1]
                            /\ owner' = OwnerAfter(acq.locks, k, <<"req", r>>)
                    /\ UNCHANGED <<redis, pf>>
       /\ UNCHANGED <<now, isConnected, notSearch>>

\* waitForScraping: one turn of the loop (the sleep is over, getPage answers)
ReqWaitPoll(r) ==
    LET rq  == req[r]
        res == getPage(l2, now, rq.sanitizedQuery, rq.page, rq.limit)
    IN /\ rq.pc = "waitForScraping"
       /\ l2' = res.l2
       /\ req' = [req EXCEPT ![r] =
                    IF IsHit(res.ret) THEN FinishWith(rq, "lock-wait", res.ret[1])
                    ELSE IF now - rq.startTime < WAIT_FOR_SCRAPING_MS THEN rq
                    ELSE Finish(rq, "wait-timeout")]
       /\ UNCHANGED <<locks, now, owner, redis, isConnected, pf, notSearch>>

\* performScraping: platform.scrape answers; a throw or an empty list leaves
\* through the finally block, which releases the lock
ReqScrapeReturn(r) ==
    LET rq  == req[r]
        rel == releaseLock(locks, rq.sanitizedQuery, rq.page, rq.limit, rq.lockId)
    IN /\ rq.pc = "scrape"
       /\ \E o \in FetchOutcomes :
            IF o.ok /\ HasVehicles(o.vehicles)
            THEN /\ req' = [req EXCEPT ![r].pc = "savePage", ![r].vehicles = o.vehicles]
                 /\ UNCHANGED <<locks, owner>>
            ELSE /\ req' = [req EXCEPT ![r] =
                              Finish(rq, IF o.ok THEN "no-vehicles" ELSE "scrape-failed")]
                 /\ locks' = rel.locks
                 /\ owner' = OwnerKept(rel.locks)
       /\ UNCHANGED <<now, redis, isConnected, l2, pf, notSearch>>

\* performScraping: the page is written to Firestore
ReqSavePage(r) ==
    LET rq == req[r]
    IN /\ rq.pc = "savePage"
       /\ l2' = savePage(l2, now, rq.sanitizedQuery, rq.page, rq.limit, rq.vehicles)
       /\ req' = [req EXCEPT ![r].pc = "saved"]
       /\ UNCHANGED <<locks, now, owner, redis, isConnected, pf, notSearch>>

\* performScraping: savePage has returned; L1 write, prefetch, result, and
\* the finally block of intelligentSearch
ReqSaved(r) ==
    LET rq  == req[r]
        rel == releaseLock(locks, rq.sanitizedQuery, rq.page, rq.limit, rq.lockId)
    IN /\ rq.pc = "saved"
       /\ redis' = cacheSearchResults(redis, isConnected, now, rq.sanitizedQuery,
                                      rq.page, rq.limit, rq.vehicles)
       /\ pf' = [pf EXCEPT ![r] = StartPrefetch(rq.sanitizedQuery, rq.page, rq.limit)]
       /\ req' = [req EXCEPT ![r] = FinishWith(rq, "live", rq.vehicles)]
       /\ locks' = rel.locks
       /\ owner' = OwnerKept(rel.locks)
       /\ UNCHANGED <<now, isConnected, l2, notSearch>>

\* triggerPrefetch: getPage answers; isLocked and acquireLock follow at once
PfGetPage(r) ==
    LET t   == pf[r]
        res == getPage(l2, now, t.query, t.page, t.limit)
        lk  == isLocked(locks, now, t.query, t.page, t.limit)
        k   == getLockKey(t.query, t.page, t.limit)
    IN /\ t.pc = "getPage"
       /\ l2' = res.l2
       /\ IF IsHit(res.ret)
          THEN /\ pf' = [pf EXCEPT ![r] = DonePrefetch]
               /\ UNCHANGED <<locks, owner>>
          ELSE IF lk.ret
          THEN /\ pf' = [pf EXCEPT ![r] = DonePrefetch]
               /\ locks' = lk.locks
               /\ owner' = OwnerKept(lk.locks)
          ELSE \E rnd \in 1..NumRand :
                 LET acq == acquireLock(lk.locks, now, rnd, t.query, t.page, t.limit)
                 IN /\ locks' = acq.locks
                    /\ IF acq.ret = NoLockId
                       THEN /\ pf' = [pf EXCEPT ![r] = DonePrefetch]
                            /\ owner' = OwnerKept(acq.locks)
                       ELSE /\ pf' = [pf EXCEPT ![r].pc = "scrape", ![r].lockId = acq.ret]
                            /\ owner' = OwnerAfter(acq.locks, k, <<"pf", r>>)
       /\ UNCHANGED <<now, redis, isConnected, req, notSearch>>

\* prefetch: platform.scrape answers
PfScrapeReturn(r) ==
    LET t   == pf[r]
        rel == releaseLock(locks, t.query, t.page, t.limit, t.lockId)
    IN /\ t.pc = "scrape"
       /\ \E o \in FetchOutcomes :
            IF o.ok /\ HasVehicles(o.vehicles)
            THEN /\ pf' = [pf EXCEPT ![r].pc = "savePage", ![r].vehicles = o.vehicles]
                 /\ UNCHANGED <<locks, owner>>
            ELSE /\ pf' = [pf EXCEPT ![r] = DonePrefetch]
                 /\ locks' = rel.locks
                 /\ owner' = OwnerKept(rel.locks)
       /\ UNCHANGED <<now, redis, isConnected, l2, req, notSearch>>

\* prefetch: the page is written to Firestore
PfSavePage(r) ==
    LET t == pf[r]
    IN /\ t.pc = "savePage"
       /\ l2' = savePage(l2, now, t.query, t.page, t.limit, t.vehicles)
       /\ pf' = [pf EXCEPT ![r].pc = "saved"]
       /\ UNCHANGED <<locks, now, owner, redis, isConnected, req, notSearch>>

\* prefetch: savePage has returned; L1 write and the finally block
PfSaved(r) ==
    LET t   == pf[r]
        rel == releaseLock(locks, t.query, t.page, t.limit, t.lockId)
    IN /\ t.pc = "saved"
       /\ redis' = cacheSearchResults(redis, isConnected, now, t.query, t.page, t.limit,
                                      t.vehicles)
       /\ pf' = [pf EXCEPT ![r] = DonePrefetch]
       /\ locks' = rel.locks
       /\ owner' = OwnerKept(rel.locks)
       /\ UNCHANGED <<now, isConnected, l2, req, notSearch>>

\* Date.now() moves on
SearchTick ==
    /\ now + TickMs <= MaxTicks * TickMs
    /\ now' = now + TickMs
    /\ UNCHANGED <<locks, owner, redis, isConnected, l2, req, pf, notSearch>>

\* the 5-minute sweep
SearchCleanup ==
    LET res == cleanupExpiredLocks(locks, now)
    IN /\ res.ret > 0
       /\ locks' = res.locks
       /\ owner' = OwnerKept(res.locks)
       /\ UNCHANGED <<now, redis, isConnected, l2, req, pf, notSearch>>

SearchQueries == {<<"h", "o">>, <<"H", "o", " ">>}

SearchIps == {"10.0.0.1"}

InitSearch ==
    /\ locks = <<>>
    /\ now = 0
    /\ owner = <<>>
    /\ redis = <<>>
    /\ isConnected = TRUE
    /\ l2 = <<>>
    /\ req = [r \in 1..NumReqs |-> IdleReq]
    /\ pf = [r \in 1..NumReqs |-> NoPrefetch]
    /\ grants = {}
    /\ last = NoCall
    /\ jobsDb = <<>>
    /\ bull = <<>>
    /\ nextBatch = 0
    /\ ledger = <<>>
    /\ lastAdm = <<>>

NextSearch ==
    \/ \E r \in DOMAIN req, q \in SearchQueries, p \in Pages, l \in Limits, ip \in SearchIps :
          ReqStart(r, q, p, l, ip, NoApiKey, FALSE)
    \/ \E r \in DOMAIN req : ReqRateSet(r)
    \/ \E r \in DOMAIN req : ReqConcurrentGet(r)
    \/ \E r \in DOMAIN req : ReqL1Get(r)
    \/ \E r \in DOMAIN req : ReqL2GetSync(r)
    \/ \E r \in DOMAIN req : ReqWaitPoll(r)
    \/ \E r \in DOMAIN req : ReqScrapeReturn(r)
    \/ \E r \in DOMAIN req : ReqSavePage(r)
    \/ \E r \in DOMAIN req : ReqSaved(r)
    \/ \E r \in DOMAIN req : PfGetPage(r)
    \/ \E r \in DOMAIN req : PfScrapeReturn(r)
    \/ \E r \in DOMAIN req : PfSavePage(r)
    \/ \E r \in DOMAIN req : PfSaved(r)
    \/ SearchTick
    \/ SearchCleanup

SpecSearch == InitSearch /\ [][NextSearch]_vars

\* ------------------------------------------------------------------------
\* Properties of the synchronous path and of the prefetch
\* ------------------------------------------------------------------------
\* the calls of platform.scrape in progress, with the key they fetch and the
\* time their lock was taken
Fetches ==
    {[who |-> <<"req", r>>,
      key |-> getLockKey(req[r].sanitizedQuery, req[r].page, req[r].limit),
      since |-> req[r].lockId[1]] : r \in {x \in DOMAIN req : req[x].pc = "scrape"}}
    \cup
    {[who |-> <<"pf", r>>,
      key |-> getLockKey(pf[r].query, pf[r].page, pf[r].limit),
      since |-> pf[r].lockId[1]] : r \in {x \in DOMAIN pf : pf[x].pc = "scrape"}}

NoFetchOutlivesLock == \A f \in Fetches : ~(now - f.since > LOCK_TIMEOUT_MS)

\* C3: as long as no fetch in progress is older than the lock timeout, no two
\* calls of platform.scrape made by sync requests or prefetches are in
\* progress for the same key.
C3_OneFetchPerKey ==
    NoFetchOutlivesLock => \A f, g \in Fetches : f.key = g.key => f = g

\* one request fetches while another request for the same key waits
C3_Witness ==
    \E r1, r2 \in DOMAIN req :
        /\ req[r1].pc = "scrape"
        /\ req[r2].pc = "waitForScraping"
        /\ getLockKey(req[r1].sanitizedQuery, req[r1].page, req[r1].limit)
             = getLockKey(req[r2].sanitizedQuery, req[r2].page, req[r2].limit)

\* C4: once a sync request or a prefetch is over, the lock map holds no lock
\* that this request or prefetch installed, whether its fetch returned or threw.
C4_NoLockLeft ==
    /\ DOMAIN owner = DOMAIN locks
    /\ \A r \in DOMAIN req :
         /\ req[r].pc = "done" => \A k \in DOMAIN owner : owner[k] # <<"req", r>>
         /\ pf[r].pc = "done" => \A k \in DOMAIN owner : owner[k] # <<"pf", r>>

\* a request whose fetch threw is over, and the prefetch of another is over
C4_Witness ==
    \E r1, r2 \in DOMAIN req :
        /\ req[r1].pc = "done"
        /\ req[r1].out = "scrape-failed"
        /\ req[r2].out = "live"
        /\ pf[r2].pc = "done"

\* ------------------------------------------------------------------------
\* Asynchronous path: queueSearchJob, the broker and the worker
\* ------------------------------------------------------------------------
JOB_ATTEMPTS == 3
WORKER_CONCURRENCY == 3

\* what the request steps of the job path leave alone
jobFrame == <<locks, now, owner, isConnected, pf, lockOnly, lastAdm>>

\* db.collection('jobs').doc(batchId).set({status, ...metadata}, {merge: true})
updateJobStatus(J, batchId, status, metadata) ==
    LET old    == IF batchId \in DOMAIN J THEN J[batchId] ELSE <<>>
        fields == (DOMAIN old) \cup (DOMAIN metadata) \cup {"status"}
    IN MapSet(J, batchId,
              [f \in fields |-> IF f = "status" THEN status
                                ELSE IF f \in DOMAIN metadata THEN metadata[f]
                                ELSE old[f]])

NewLedger == [inc |-> 0, dec |-> 0, enqueued |-> FALSE, end |-> "none"]

\* the message queue.add stores for a call of queueSearchJob
NewJob(rq) ==
    [batchId |-> rq.batchId, query |-> rq.sanitizedQuery, page |-> rq.page,
     limit |-> rq.limit, clientIp |-> rq.clientIp, apiKey |-> rq.apiKey,
     priority |-> calculatePriority(rq.apiKey, rq.limit),
     attemptsMade |-> 0, state |-> "waiting", step |-> "", vehicles |-> <<>>]

\* the call of queueSearchJob ends with the error rethrown by its catch block
FinishQueueError(r) ==
    LET b == req[r].batchId
    IN /\ req' = [req EXCEPT ![r] = Finish(req[r], "queue-error")]
       /\ ledger' = [ledger EXCEPT ![b].end =
                        IF ledger[b].enqueued THEN ledger[b].end ELSE "not-enqueued"]

\* 2. L2 lookup misses in async mode: queueSearchJob draws a batchId and
\* calls incrementConcurrentJobs
ReqL2GetAsync(r) ==
    LET rq  == req[r]
        res == getPage(l2, now, rq.sanitizedQuery, rq.page, rq.limit)
        b   == nextBatch + 1
    IN /\ rq.pc = "l2Get"
       /\ rq.async
       /\ ~IsHit(res.ret)
       /\ l2' = res.l2
       /\ nextBatch' = b
       /\ ledger' = MapSet(ledger, b, NewLedger)
       /\ req' = [req EXCEPT ![r].pc = "incrementGet", ![r].batchId = b]
       /\ UNCHANGED <<redis, jobsDb, bull, jobFrame>>

\* incrementConcurrentJobs: the read of the counter
ReqIncrementGet(r) ==
    LET rq == req[r]
    IN /\ rq.pc = "incrementGet"
       /\ req' = [req EXCEPT ![r].pc = "incrementSet",
                             ![r].count = OrZero(cacheGet(redis, isConnected, now,
                                                 ConcurrentKey(rq.clientIp, rq.apiKey)))]
       /\ ledger' = [ledger EXCEPT ![rq.batchId].inc = @ + 1]
       /\ UNCHANGED <<redis, l2, jobsDb, bull, nextBatch, jobFrame>>

\* incrementConcurrentJobs: the write of the counter
ReqIncrementSet(r) ==
    LET rq == req[r]
    IN /\ rq.pc = "incrementSet"
       /\ redis' = cacheSet(redis, isConnected, now, ConcurrentKey(rq.clientIp, rq.apiKey),
                            rq.count + 1, COUNTER_TTL_SECONDS)
       /\ req' = [req EXCEPT ![r].pc = "addJob", ![r].count = 0]
       /\ UNCHANGED <<l2, jobsDb, bull, nextBatch, ledger, jobFrame>>

\* queueManager.addJob that stores the message twice
ReqAddJob_Twice(r) ==
    LET rq == req[r]
    IN /\ rq.pc = "addJob"
       /\ \E ok \in BOOLEAN :
            IF ok
            THEN /\ bull' = Append(Append(bull, NewJob(rq)), NewJob(rq))
                 /\ ledger' = [ledger EXCEPT ![rq.batchId].enqueued = TRUE]
                 /\ req' = [req EXCEPT ![r].pc = "setQueued"]
            ELSE /\ req' = [req EXCEPT ![r].pc = "decrementGet"]
                 /\ UNCHANGED <<bull, ledger>>
       /\ UNCHANGED <<redis, l2, jobsDb, nextBatch, jobFrame>>

\* queueManager.addJob: the broker stores the message, or the call throws
ReqAddJob(r) ==
    LET rq == req[r]
    IN /\ rq.pc = "addJob"
       /\ \E ok \in BOOLEAN :
            IF ok
            THEN /\ bull' = Append(bull, NewJob(rq))
                 /\ ledger' = [ledger EXCEPT ![rq.batchId].enqueued = TRUE]
                 /\ req' = [req EXCEPT ![r].pc = "setQueued"]
            ELSE /\ req' = [req EXCEPT ![r].pc = "decrementGet"]
                 /\ UNCHANGED <<bull, ledger>>
       /\ UNCHANGED <<redis, l2, jobsDb, nextBatch, jobFrame>>

\* BatchRepository.updateJobStatus(batchId, 'queued', ...): written, or throws
ReqSetQueued(r) ==
    LET rq == req[r]
    IN /\ rq.pc = "setQueued"
       /\ \E ok \in BOOLEAN :
            IF ok
            THEN /\ jobsDb' = updateJobStatus(jobsDb, rq.batchId, "queued",
                                              [query |-> rq.sanitizedQuery, page |-> rq.page,
                                               limit |-> rq.limit,
                                               priority |-> calculatePriority(rq.apiKey, rq.limit)])
                 /\ req' = [req EXCEPT ![r] = Finish(rq, "queued")]
            ELSE /\ req' = [req EXCEPT ![r].pc = "decrementGet"]
                 /\ UNCHANGED jobsDb
       /\ UNCHANGED <<redis, l2, bull, nextBatch, ledger, jobFrame>>

\* catch block: decrementConcurrentJobs, the read of the counter
ReqDecrementGet(r) ==
    LET rq      == req[r]
        current == OrZero(cacheGet(redis, isConnected, now,
                                   ConcurrentKey(rq.clientIp, rq.apiKey)))
        counted == [ledger EXCEPT ![rq.batchId].dec = @ + 1]
    IN /\ rq.pc = "decrementGet"
       /\ IF current > 0
          THEN /\ req' = [req EXCEPT ![r].pc = "decrementSet", ![r].count = current]
               /\ ledger' = counted
          ELSE /\ req' = [req EXCEPT ![r] = Finish(rq, "queue-error")]
               /\ ledger' = [counted EXCEPT ![rq.batchId].end =
                                IF counted[rq.batchId].enqueued THEN @ ELSE "not-enqueued"]
       /\ UNCHANGED <<redis, l2, jobsDb, bull, nextBatch, jobFrame>>

\* catch block: decrementConcurrentJobs, the write of the counter, and the rethrow
ReqDecrementSet(r) ==
    LET rq == req[r]
    IN /\ rq.pc = "decrementSet"
       /\ redis' = cacheSet(redis, isConnected, now, ConcurrentKey(rq.clientIp, rq.apiKey),
                            rq.count - 1, COUNTER_TTL_SECONDS)
       /\ FinishQueueError(r)
       /\ UNCHANGED <<l2, jobsDb, bull, nextBatch, jobFrame>>

\* what the worker steps leave alone
workerFrame == <<locks, now, owner, redis, isConnected, req, pf, nextBatch, lockOnly, lastAdm>>

ActiveJobs == {i \in 1..Len(bull) : bull[i].state = "active"}

RemoveAt(q, i) == SubSeq(q, 1, i - 1) \o SubSeq(q, i + 1, Len(q))

\* the broker hands the oldest waiting message to a free processor
WkClaim(i) ==
    /\ i \in 1..Len(bull)
    /\ bull[i].state = "waiting"
    /\ \A j \in 1..(i - 1) : bull[j].state # "waiting"
    /\ Cardinality(ActiveJobs) < WORKER_CONCURRENCY
    /\ bull' = [bull EXCEPT ![i].state = "active", ![i].step = "setProcessing"]
    /\ UNCHANGED <<l2, jobsDb, ledger, workerFrame>>

\* processScrapeJob: status 'processing' (the worker's writes are taken to
\* reach the store; one that throws is logged and leaves the document as it was)
WkSetProcessing(i) ==
    /\ i \in 1..Len(bull)
    /\ bull[i].step = "setProcessing"
    /\ jobsDb' = updateJobStatus(jobsDb, bull[i].batchId, "processing", <<>>)
    /\ bull' = [bull EXCEPT ![i].step = "scrape"]
    /\ UNCHANGED <<l2, ledger, workerFrame>>

\* processScrapeJob: platform.scrape answers
WkScrapeReturn(i) ==
    /\ i \in 1..Len(bull)
    /\ bull[i].step = "scrape"
    /\ \E o \in FetchOutcomes :
         bull' = [bull EXCEPT ![i].step = IF ~o.ok THEN "setFailed"
                                           ELSE IF HasVehicles(o.vehicles) THEN "savePage"
                                           ELSE "setCompleted",
                              ![i].vehicles = o.vehicles]
    /\ UNCHANGED <<l2, jobsDb, ledger, workerFrame>>

\* processScrapeJob: the page is written to Firestore
WkSavePage(i) ==
    /\ i \in 1..Len(bull)
    /\ bull[i].step = "savePage"
    /\ l2' = savePage(l2, now, bull[i].query, bull[i].page, bull[i].limit, bull[i].vehicles)
    /\ bull' = [bull EXCEPT ![i].step = "setCompleted"]
    /\ UNCHANGED <<jobsDb, ledger, workerFrame>>

\* processScrapeJob: status 'completed'; the broker drops the finished message
WkSetCompleted(i) ==
    /\ i \in 1..Len(bull)
    /\ bull[i].step = "setCompleted"
    /\ jobsDb' = updateJobStatus(jobsDb, bull[i].batchId, "completed",
                                 [vehiclesFound |-> Len(bull[i].vehicles)])
    /\ bull' = RemoveAt(bull, i)
    /\ ledger' = [ledger EXCEPT ![bull[i].batchId].end = "completed"]
    /\ UNCHANGED <<l2, workerFrame>>

\* processScrapeJob, catch block: status 'failed', then the rethrow; the
\* broker retries while attempts remain
WkSetFailed(i) ==
    LET made == bull[i].attemptsMade + 1
    IN /\ i \in 1..Len(bull)
       /\ bull[i].step = "setFailed"
       /\ jobsDb' = updateJobStatus(jobsDb, bull[i].batchId, "failed", [attempt |-> made])
       /\ IF made < JOB_ATTEMPTS
          THEN /\ bull' = RemoveAt(bull, i) \o
                            <<[bull[i] EXCEPT !.attemptsMade = made, !.state = "delayed",
                                              !.step = "", !.vehicles = <<>>]>>
               /\ UNCHANGED ledger
          ELSE /\ bull' = [bull EXCEPT ![i].attemptsMade = made, ![i].state = "failed",
                                       ![i].step = "", ![i].vehicles = <<>>]
               /\ ledger' = [ledger EXCEPT ![bull[i].batchId].end = "failed"]
       /\ UNCHANGED <<l2, workerFrame>>

\* the backoff delay of a retried message is over
BullPromote(i) ==
    /\ i \in 1..Len(bull)
    /\ bull[i].state = "delayed"
    /\ bull' = [bull EXCEPT ![i].state = "waiting"]
    /\ UNCHANGED <<l2, jobsDb, ledger, workerFrame>>

JobQueries == {<<"h", "o">>}

JobPages == {1}

JobReqs == 1..NumJobReqs

InitJobs ==
    /\ locks = <<>>
    /\ now = 0
    /\ owner = <<>>
    /\ redis = <<>>
    /\ isConnected = TRUE
    /\ l2 = <<>>
    /\ req = [r \in JobReqs |-> IdleReq]
    /\ pf = [r \in JobReqs |-> NoPrefetch]
    /\ grants = {}
    /\ last = NoCall
    /\ jobsDb = <<>>
    /\ bull = <<>>
    /\ nextBatch = 0
    /\ ledger = <<>>
    /\ lastAdm = <<>>

NextJobs ==
    \/ \E r \in DOMAIN req, q \in JobQueries, p \in JobPages, l \in Limits, ip \in SearchIps :
          ReqStart(r, q, p, l, ip, NoApiKey, TRUE)
    \/ \E r \in DOMAIN req : ReqRateSet(r)
    \/ \E r \in DOMAIN req : ReqConcurrentGet(r)
    \/ \E r \in DOMAIN req : ReqL1Get(r)
    \/ \E r \in DOMAIN req : ReqL2GetSync(r)
    \/ \E r \in DOMAIN req : ReqL2GetAsync(r)
    \/ \E r \in DOMAIN req : ReqIncrementGet(r)
    \/ \E r \in DOMAIN req : ReqIncrementSet(r)
    \/ \E r \in DOMAIN req : ReqAddJob(r)
    \/ \E r \in DOMAIN req : ReqSetQueued(r)
    \/ \E r \in DOMAIN req : ReqDecrementGet(r)
    \/ \E r \in DOMAIN req : ReqDecrementSet(r)
    \/ \E r \in DOMAIN req : PfGetPage(r)
    \/ \E r \in DOMAIN req : PfScrapeReturn(r)
    \/ \E r \in DOMAIN req : PfSavePage(r)
    \/ \E r \in DOMAIN req : PfSaved(r)
    \/ \E i \in 1..Len(bull) : WkClaim(i)
    \/ \E i \in 1..Len(bull) : WkSetProcessing(i)
    \/ \E i \in 1..Len(bull) : WkScrapeReturn(i)
    \/ \E i \in 1..Len(bull) : WkSavePage(i)
    \/ \E i \in 1..Len(bull) : WkSetCompleted(i)
    \/ \E i \in 1..Len(bull) : WkSetFailed(i)
    \/ \E i \in 1..Len(bull) : BullPromote(i)

SpecJobs == InitJobs /\ [][NextJobs]_vars

\* ------------------------------------------------------------------------
\* Properties of the asynchronous path
\* ------------------------------------------------------------------------
JobEnded(b) == ledger[b].end # "none"

\* C6: every async job whose counter was incremented at submission has the
\* counter decremented exactly once when the job has ended, whether it
\* completed in the worker, failed in the worker or was never enqueued.
C6_MatchedPairs ==
    \A b \in DOMAIN ledger :
        (ledger[b].inc = 1 /\ JobEnded(b)) => ledger[b].dec = 1

TerminalStatus == {"completed", "failed"}

\* C9: once the persisted status of a batchId is completed or failed, no
\* later write changes it.
C9_TerminalImmutable ==
    [][\A b \in DOMAIN jobsDb :
          jobsDb[b].status \in TerminalStatus => jobsDb'[b].status = jobsDb[b].status]_vars

RetryBudgetExhausted(b) ==
    \E i \in 1..Len(bull) : bull[i].batchId = b /\ bull[i].attemptsMade >= JOB_ATTEMPTS

\* C10: the persisted status of a job is failed only when the broker's
\* retry budget of the job is exhausted.
C10_FailedOnlyAfterBudget ==
    \A b \in DOMAIN jobsDb :
        jobsDb[b].status = "failed" => RetryBudgetExhausted(b)

\* ------------------------------------------------------------------------
\* Concurrent submissions of an identity that is one job below its cap (the
\* worker process is not running)
\* ------------------------------------------------------------------------
RaceIp == "10.0.0.1"

\* the identity is one job below its cap
PriorJobs == MAX_JOBS_PER_IP - 1

\* the request of the b-th earlier submission, as queueSearchJob sees it
PriorReq(b) ==
    [IdleReq EXCEPT !.batchId = b, !.sanitizedQuery = <<"h", "o">>, !.page = 1,
                    !.limit = 10, !.clientIp = RaceIp, !.apiKey = NoApiKey, !.async = TRUE]

RECURSIVE PriorState(_)
\* the stores after n submissions made one after the other, each admitted
\* and queued
PriorState(n) ==
    IF n = 0
    THEN [redis |-> <<>>, bull |-> <<>>, jobsDb |-> <<>>, ledger |-> <<>>]
    ELSE LET s  == PriorState(n - 1)
             rq == PriorReq(n)
         IN [redis  |-> incrementConcurrentJobs(
                            canSubmitJob(s.redis, TRUE, 0, RaceIp, NoApiKey).redis,
                            TRUE, 0, RaceIp, NoApiKey),
             bull   |-> Append(s.bull, NewJob(rq)),
             jobsDb |-> updateJobStatus(s.jobsDb, n, "queued",
                                        [query |-> rq.sanitizedQuery, page |-> rq.page,
                                         limit |-> rq.limit,
                                         priority |-> calculatePriority(rq.apiKey, rq.limit)]),
             ledger |-> MapSet(s.ledger, n,
                               [inc |-> 1, dec |-> 0, enqueued |-> TRUE, end |-> "none"])]

InitRace ==
    /\ locks = <<>>
    /\ now = 0
    /\ owner = <<>>
    /\ redis = PriorState(PriorJobs).redis
    /\ isConnected = TRUE
    /\ l2 = <<>>
    /\ req = [r \in 1..NumRaceReqs |-> IdleReq]
    /\ pf = [r \in 1..NumRaceReqs |-> NoPrefetch]
    /\ grants = {}
    /\ last = NoCall
    /\ jobsDb = PriorState(PriorJobs).jobsDb
    /\ bull = PriorState(PriorJobs).bull
    /\ nextBatch = PriorJobs
    /\ ledger = PriorState(PriorJobs).ledger
    /\ lastAdm = <<>>

NextRace ==
    \/ \E r \in DOMAIN req, q \in JobQueries, p \in JobPages, l \in Limits, ip \in SearchIps :
          ReqStart(r, q, p, l, ip, NoApiKey, TRUE)
    \/ \E r \in DOMAIN req : ReqRateSet(r)
    \/ \E r \in DOMAIN req : ReqConcurrentGet(r)
    \/ \E r \in DOMAIN req : ReqL1Get(r)
    \/ \E r \in DOMAIN req : ReqL2GetAsync(r)
    \/ \E r \in DOMAIN req : ReqIncrementGet(r)
    \/ \E r \in DOMAIN req : ReqIncrementSet(r)
    \/ \E r \in DOMAIN req : ReqAddJob(r)
    \/ \E r \in DOMAIN req : ReqSetQueued(r)
    \/ \E r \in DOMAIN req : ReqDecrementGet(r)
    \/ \E r \in DOMAIN req : ReqDecrementSet(r)

SpecRace == InitRace /\ [][NextRace]_vars

\* the messages of an identity the broker holds that have not ended
OpenJobs(clientIp, apiKey) ==
    {i \in 1..Len(bull) : /\ bull[i].clientIp = clientIp
                          /\ bull[i].apiKey = apiKey
                          /\ bull[i].state \in {"waiting", "active", "delayed"}}

\* C8: the number of queued or processing jobs of an identity never exceeds
\* the identity's concurrent-job cap.
C8_CapNeverExceeded ==
    Cardinality(OpenJobs(RaceIp, NoApiKey)) <= MaxJobs(NoApiKey)

\* ------------------------------------------------------------------------
\* Admission calls of the security service for one caller, one call at a time
\* ------------------------------------------------------------------------
AdmIps == {"10.0.0.1"}

AdmApiKeys == {NoApiKey, "key-1"}

\* the counter as Redis holds it, whether or not the client is connected
StoredCount(R, t, key) == OrZero(cacheGet(R, TRUE, t, key))

NoAdm ==
    [op |-> "none", clientIp |-> "", apiKey |-> NoApiKey, connected |-> TRUE,
     rateBefore |-> 0, jobsBefore |-> 0, allowed |-> FALSE, reason |-> "", decFrom |-> -1]

\* the counter the preceding call decremented, when that call was a
\* decrementConcurrentJobs of the same identity that reached Redis
DecrementedFrom(clientIp, apiKey) ==
    IF /\ lastAdm.op = "decrementConcurrentJobs"
       /\ Identifier(lastAdm.clientIp, lastAdm.apiKey) = Identifier(clientIp, apiKey)
       /\ lastAdm.connected
    THEN lastAdm.jobsBefore
    ELSE -1

admFrame == <<locks, now, owner, l2, req, pf, lockOnly, jobOnly>>

\* intelligentSearch, step 0: canSubmitJob(clientIp, apiKey)
AdmCanSubmitJob(clientIp, apiKey) ==
    LET res == canSubmitJob(redis, isConnected, now, clientIp, apiKey)
    IN /\ redis' = res.redis
       /\ lastAdm' = [op |-> "canSubmitJob", clientIp |-> clientIp, apiKey |-> apiKey,
                      connected |-> isConnected,
                      rateBefore |-> StoredCount(redis, now, RateKey(clientIp, apiKey)),
                      jobsBefore |-> StoredCount(redis, now, ConcurrentKey(clientIp, apiKey)),
                      allowed |-> res.allowed, reason |-> res.reason,
                      decFrom |-> DecrementedFrom(clientIp, apiKey)]
       /\ UNCHANGED <<isConnected, admFrame>>

\* queueSearchJob: incrementConcurrentJobs for the submission just admitted
\* (admissions during an outage can push the counter past the cap without
\* limit; the run stops MaxOverCap above it)
AdmIncrement ==
    /\ lastAdm.op = "canSubmitJob"
    /\ lastAdm.allowed
    /\ StoredCount(redis, now, ConcurrentKey(lastAdm.clientIp, lastAdm.apiKey))
          < MaxJobs(lastAdm.apiKey) + MaxOverCap
    /\ redis' = incrementConcurrentJobs(redis, isConnected, now, lastAdm.clientIp, lastAdm.apiKey)
    /\ lastAdm' = [NoAdm EXCEPT !.op = "incrementConcurrentJobs",
                                !.clientIp = lastAdm.clientIp, !.apiKey = lastAdm.apiKey]
    /\ UNCHANGED <<isConnected, admFrame>>

\* a job of the identity has ended: decrementConcurrentJobs
AdmDecrement(clientIp, apiKey) ==
    /\ redis' = decrementConcurrentJobs(redis, isConnected, now, clientIp, apiKey)
    /\ lastAdm' = [NoAdm EXCEPT !.op = "decrementConcurrentJobs",
                                !.clientIp = clientIp, !.apiKey = apiKey,
                                !.connected = isConnected,
                                !.jobsBefore = StoredCount(redis, now,
                                                           ConcurrentKey(clientIp, apiKey))]
    /\ UNCHANGED <<isConnected, admFrame>>

\* the Redis client's 'error' / 'disconnect' and 'connect' events
AdmConnection ==
    /\ isConnected' = ~isConnected
    /\ UNCHANGED <<redis, lastAdm, admFrame>>

InitAdmission ==
    /\ locks = <<>>
    /\ now = 0
    /\ owner = <<>>
    /\ redis = <<>>
    /\ isConnected = TRUE
    /\ l2 = <<>>
    /\ req = <<>>
    /\ pf = <<>>
    /\ grants = {}
    /\ last = NoCall
    /\ jobsDb = <<>>
    /\ bull = <<>>
    /\ nextBatch = 0
    /\ ledger = <<>>
    /\ \E ip \in AdmIps, key \in AdmApiKeys :
          lastAdm = [NoAdm EXCEPT !.clientIp = ip, !.apiKey = key]

NextAdmission ==
    \/ AdmCanSubmitJob(lastAdm.clientIp, lastAdm.apiKey)
    \/ AdmIncrement
    \/ AdmDecrement(lastAdm.clientIp, lastAdm.apiKey)
    \/ AdmConnection
    \/ Tick

SpecAdmission == InitAdmission /\ [][NextAdmission]_vars

AtCap == lastAdm.jobsBefore >= MaxJobs(lastAdm.apiKey)

AfterDecrementFromCap == lastAdm.decFrom = MaxJobs(lastAdm.apiKey)

\* C7 (amended): while the counter store is reachable, a submission of an
\* identity whose job counter is at its cap is denied by canSubmitJob; a
\* submission that follows the decrement of that counter from the cap is
\* allowed when the store is reachable and the identity is below its
\* request-rate limit.
C7_CapDeniesThenAdmits ==
    lastAdm.op = "canSubmitJob" =>
        /\ (lastAdm.connected /\ AtCap) => ~lastAdm.allowed
        /\ (/\ lastAdm.connected
            /\ AfterDecrementFromCap
            /\ ~RateLimitExceeded(lastAdm.rateBefore, lastAdm.apiKey)) => lastAdm.allowed

\* C7 witness: an API-key identity whose counter was decremented from its cap
\* of 10 is admitted again
C7_Witness ==
    /\ lastAdm.op = "canSubmitJob"
    /\ lastAdm.apiKey # NoApiKey
    /\ lastAdm.connected
    /\ AfterDecrementFromCap
    /\ lastAdm.jobsBefore = MAX_JOBS_PER_API_KEY - 1
    /\ lastAdm.allowed

\* C7 as stated: the submission of an identity at its cap is denied, and the
\* submission after the decrement of its counter is allowed.
C7_AsStated ==
    lastAdm.op = "canSubmitJob" =>
        /\ AtCap => ~lastAdm.allowed
        /\ AfterDecrementFromCap => lastAdm.allowed

\* ------------------------------------------------------------------------
\* Order of the status writes of the controller and the worker
\* ------------------------------------------------------------------------
\* the jobs a worker has claimed at least once
ClaimedJobs(q) == {i \in 1..Len(q) : q[i].state # "waiting" \/ q[i].attemptsMade > 0}

\* C11: the queued record of a batchId exists before a worker claims the
\* job, and once the stored status is processing, completed or failed it is
\* never queued again.
C11_QueuedComesFirst ==
    [][/\ \A i \in ClaimedJobs(bull') : bull'[i].batchId \in DOMAIN jobsDb'
       /\ \A b \in DOMAIN jobsDb :
             jobsDb[b].status # "queued" => jobsDb'[b].status # "queued"]_vars

\* ------------------------------------------------------------------------
\* Order of the cache tiers in a lookup
\* ------------------------------------------------------------------------
\* what the fast tier answers to the request now
L1Lookup(rq) ==
    getCachedSearchResults(redis, isConnected, now, rq.sanitizedQuery, rq.page, rq.limit)

\* what the slow tier answers to the request now
L2Lookup(rq) == getPage(l2, now, rq.sanitizedQuery, rq.page, rq.limit).ret

\* C12: the slow tier is consulted only after a fast-tier miss; a request
\* that hits the fast tier returns its records and touches neither the slow
\* tier nor the lock map; a request that hits the slow tier returns the
\* slow-tier records, takes no lock, and the fast tier then holds those
\* records.
C12_FastTierFirst ==
    [][\A r \in DOMAIN req :
          LET rq == req[r]
              nx == req'[r]
          IN /\ (nx.pc = "l2Get" /\ rq.pc # "l2Get")
                    => (rq.pc = "l1Get" /\ ~IsHit(L1Lookup(rq)))
             /\ (rq.pc = "l1Get" /\ nx # rq /\ IsHit(L1Lookup(rq)))
                    => /\ nx.pc = "done" /\ nx.out = "redis"
                       /\ nx.vehicles = L1Lookup(rq)[1]
                       /\ l2' = l2 /\ locks' = locks
             /\ (rq.pc = "l2Get" /\ nx # rq /\ IsHit(L2Lookup(rq)))
                    => /\ nx.pc = "done" /\ nx.out = "cache"
                       /\ nx.vehicles = L2Lookup(rq)[1]
                       /\ locks' = locks
                       /\ isConnected =>
                            getCachedSearchResults(redis', isConnected, now, rq.sanitizedQuery,
                                                   rq.page, rq.limit) = <<L2Lookup(rq)[1]>>]_vars

\* C12 witness: a request was served by the slow tier, and the fast tier
\* holds the records it returned
C12_Witness ==
    \E r \in DOMAIN req, q \in SearchQueries, p \in Pages, l \in Limits :
        /\ req[r].pc = "done" /\ req[r].out = "cache" /\ Len(req[r].vehicles) > 0
        /\ getCachedSearchResults(redis, isConnected, now, validateQuery(q).sanitized, p, l)
              = <<req[r].vehicles>>

\* ------------------------------------------------------------------------
\* A live search followed by a cached one
\* ------------------------------------------------------------------------
SameResultKey(a, b) ==
    a.sanitizedQuery = b.sanitizedQuery /\ a.page = b.page /\ a.limit = b.limit

ReturnedLive(rq) == rq.pc = "done" /\ rq.out = "live"

KeyLocked(rq) == isLocked(locks, now, rq.sanitizedQuery, rq.page, rq.limit).ret

\* C13: a sync call that misses both tiers while the key is free takes the
\* lock and calls platform.scrape; a call that returned live made exactly one
\* platform.scrape call and its page is in the slow tier; a later call for
\* the same query, page and limit within the fast-tier TTL is served from the
\* fast tier without a platform.scrape call and starts the prefetch of
\* page + 1 with the same limit.
C13_LiveThenCached ==
    [][\A r \in DOMAIN req :
          LET rq == req[r]
              nx == req'[r]
          IN /\ (rq.pc = "l2Get" /\ ~rq.async /\ nx # rq
                   /\ ~IsHit(L2Lookup(rq)) /\ ~KeyLocked(rq))
                    => /\ nx.pc = "scrape" /\ nx.fetches = 1
                       /\ getLockKey(rq.sanitizedQuery, rq.page, rq.limit) \in DOMAIN locks'
                       /\ locks'[getLockKey(rq.sanitizedQuery, rq.page, rq.limit)].lockId
                            = nx.lockId
             /\ ReturnedLive(rq)
                    => /\ rq.fetches = 1
                       /\ Len(rq.vehicles) > 0
                       /\ IsHit(L2Lookup(rq))
                       /\ Len(L2Lookup(rq)[1]) = Len(rq.vehicles)
             /\ (rq.pc = "l1Get" /\ nx # rq /\ isConnected
                   /\ now < SEARCH_TTL_SECONDS * 1000
                   /\ \E r1 \in DOMAIN req : ReturnedLive(req[r1]) /\ SameResultKey(req[r1], rq))
                    => /\ nx.pc = "done" /\ nx.out = "redis"
                       /\ nx.fetches = 0
                       /\ Len(nx.vehicles) > 0
                       /\ pf'[r] = [NoPrefetch EXCEPT !.pc = "getPage",
                                                     !.query = rq.sanitizedQuery,
                                                     !.page = rq.page + 1,
                                                     !.limit = rq.limit]]_vars

\* C13 witness: a call returned live and a second call for the same key was
\* served from the fast tier and has its prefetch of the next page pending
C13_Witness ==
    \E r1, r2 \in DOMAIN req :
        /\ ReturnedLive(req[r1])
        /\ req[r2].pc = "done" /\ req[r2].out = "redis"
        /\ SameResultKey(req[r1], req[r2])
        /\ req[r2].page = 1
        /\ pf[r2].pc = "getPage" /\ pf[r2].page = 2 /\ pf[r2].limit = req[r2].limit

\* ------------------------------------------------------------------------
\* The two cache tiers, one call at a time
\* ------------------------------------------------------------------------
Vehicle2 == [lot_number |-> 2, timestamp |-> <<"Date", 0>>]

VehicleLists == {<<>>, <<Vehicle1>>, <<Vehicle1, Vehicle2>>}

CachePages == {1}

\* the instants the clock of this specification visits: the start, the end
\* of the fast-tier TTL, the end of the slow-tier TTL and the instant after it
CacheTimes == {0, SEARCH_TTL_SECONDS * 1000, PAGE_TTL_MS, PAGE_TTL_MS + 1}

cacheFrame == <<locks, owner, isConnected, req, pf, grants, jobOnly, lastAdm>>

NoCacheCall ==
    [op |-> "none", query |-> <<>>, page |-> 0, limit |-> 0, vehicles |-> <<>>,
     at |-> 0, fresh |-> FALSE, pre |-> "absent", ret |-> <<>>]

\* the preceding call stored a page under exactly this query, page and limit
JustStored(op, query, page, limit) ==
    last.op = op /\ last.query = query /\ last.page = page /\ last.limit = limit

\* the slow-tier document of the key before a lookup: absent, live or expired
PageState(D, t, query, page, limit) ==
    LET ref == <<trim(toLowerCase(query)), <<page, limit>>>>
    IN IF ref \notin DOMAIN D THEN "absent"
       ELSE IF D[ref].metadata.expiresAt < t THEN "expired"
       ELSE "live"

CacheSavePage(query, page, limit, vehicles) ==
    /\ l2' = savePage(l2, now, query, page, limit, vehicles)
    /\ last' = [NoCacheCall EXCEPT !.op = "savePage", !.query = query, !.page = page,
                                   !.limit = limit, !.vehicles = vehicles, !.at = now]
    /\ UNCHANGED <<now, redis, cacheFrame>>

CacheGetPage(query, page, limit) ==
    LET res   == getPage(l2, now, query, page, limit)
        fresh == JustStored("savePage", query, page, limit)
    IN /\ l2' = res.l2
       /\ last' = [NoCacheCall EXCEPT !.op = "getPage", !.query = query, !.page = page,
                                      !.limit = limit, !.fresh = fresh,
                                      !.vehicles = IF fresh THEN last.vehicles ELSE <<>>,
                                      !.at = IF fresh THEN last.at ELSE 0,
                                      !.pre = PageState(l2, now, query, page, limit),
                                      !.ret = res.ret]
       /\ UNCHANGED <<now, redis, cacheFrame>>

CacheStoreSearch(query, page, limit, vehicles) ==
    /\ redis' = cacheSearchResults(redis, isConnected, now, query, page, limit, vehicles)
    /\ last' = [NoCacheCall EXCEPT !.op = "cacheSearchResults", !.query = query,
                                   !.page = page, !.limit = limit,
                                   !.vehicles = vehicles, !.at = now]
    /\ UNCHANGED <<now, l2, cacheFrame>>

CacheLookupSearch(query, page, limit) ==
    LET fresh == JustStored("cacheSearchResults", query, page, limit)
    IN /\ last' = [NoCacheCall EXCEPT !.op = "getCachedSearchResults", !.query = query,
                                      !.page = page, !.limit = limit, !.fresh = fresh,
                                      !.vehicles = IF fresh THEN last.vehicles ELSE <<>>,
                                      !.at = IF fresh THEN last.at ELSE 0,
                                      !.ret = getCachedSearchResults(redis, isConnected, now,
                                                                     query, page, limit)]
       /\ UNCHANGED <<now, redis, l2, cacheFrame>>

\* Date.now() moves on to a later instant
CacheAdvance ==
    /\ \E t \in CacheTimes : t > now /\ now' = t
    /\ UNCHANGED <<redis, l2, last, cacheFrame>>

InitCache ==
    /\ locks = <<>>
    /\ now = 0
    /\ owner = <<>>
    /\ redis = <<>>
    /\ isConnected = TRUE
    /\ l2 = <<>>
    /\ req = <<>>
    /\ pf = <<>>
    /\ grants = {}
    /\ last = NoCacheCall
    /\ jobsDb = <<>>
    /\ bull = <<>>
    /\ nextBatch = 0
    /\ ledger = <<>>
    /\ lastAdm = <<>>

NextCache ==
    \/ \E q \in SearchQueries, p \in CachePages, l \in Limits, vs \in VehicleLists :
          CacheSavePage(q, p, l, vs)
    \/ \E q \in SearchQueries, p \in CachePages, l \in Limits : CacheGetPage(q, p, l)
    \/ \E q \in SearchQueries, p \in CachePages, l \in Limits, vs \in VehicleLists :
          CacheStoreSearch(q, p, l, vs)
    \/ \E q \in SearchQueries, p \in CachePages, l \in Limits : CacheLookupSearch(q, p, l)
    \/ CacheAdvance

SpecCache == InitCache /\ [][NextCache]_vars

\* the lookup follows a store of the same key and falls within the TTL
LookupWithinTTL ==
    /\ last.fresh
    /\ \/ last.op = "getPage" /\ now <= last.at + PAGE_TTL_MS
       \/ last.op = "getCachedSearchResults" /\ now < last.at + SEARCH_TTL_SECONDS * 1000

\* C14: a lookup that follows the store of the same query, page and limit
\* within the TTL returns exactly the records that were stored, in both tiers.
C14_RoundTrip ==
    LookupWithinTTL => last.ret = <<last.vehicles>>

\* C15: a slow-tier document whose expiresAt is in the past is never
\* returned: getPage answers null for it, which the callers handle as a
\* miss, and the document is deleted; a page that is returned has not expired.
C15_ExpiredNeverReturned ==
    last.op = "getPage" =>
        /\ last.pre = "expired" =>
              /\ last.ret = <<>>
              /\ ~IsHit(last.ret)
              /\ PageState(l2, now, last.query, last.page, last.limit) = "absent"
        /\ last.ret # <<>> => last.pre = "live"

\* C15 witness: getPage was called on an expired document that held vehicles
C15_Witness ==
    /\ last.op = "getPage"
    /\ last.pre = "expired"
    /\ now = PAGE_TTL_MS + 1
    /\ last.ret = <<>>

\* ------------------------------------------------------------------------
\* The sync path, the prefetch and the worker side by side
\* ------------------------------------------------------------------------
InitPaths ==
    /\ locks = <<>>
    /\ now = 0
    /\ owner = <<>>
    /\ redis = <<>>
    /\ isConnected = TRUE
    /\ l2 = <<>>
    /\ req = [r \in 1..NumReqs |-> IdleReq]
    /\ pf = [r \in 1..NumReqs |-> NoPrefetch]
    /\ grants = {}
    /\ last = NoCall
    /\ jobsDb = <<>>
    /\ bull = <<>>
    /\ nextBatch = 0
    /\ ledger = <<>>
    /\ lastAdm = <<>>

NextPaths ==
    \/ \E r \in DOMAIN req, q \in JobQueries, p \in JobPages, l \in Limits, ip \in SearchIps,
          async \in BOOLEAN :
          ReqStart(r, q, p, l, ip, NoApiKey, async)
    \/ \E r \in DOMAIN req : ReqRateSet(r)
    \/ \E r \in DOMAIN req : ReqConcurrentGet(r)
    \/ \E r \in DOMAIN req : ReqL1Get(r)
    \/ \E r \in DOMAIN req : ReqL2GetSync(r)
    \/ \E r \in DOMAIN req : ReqWaitPoll(r)
    \/ \E r \in DOMAIN req : ReqScrapeReturn(r)
    \/ \E r \in DOMAIN req : ReqSavePage(r)
    \/ \E r \in DOMAIN req : ReqSaved(r)
    \/ \E r \in DOMAIN req : ReqL2GetAsync(r)
    \/ \E r \in DOMAIN req : ReqIncrementGet(r)
    \/ \E r \in DOMAIN req : ReqIncrementSet(r)
    \/ \E r \in DOMAIN req : ReqAddJob(r)
    \/ \E r \in DOMAIN req : ReqSetQueued(r)
    \/ \E r \in DOMAIN req : ReqDecrementGet(r)
    \/ \E r \in DOMAIN req : ReqDecrementSet(r)
    \/ \E r \in DOMAIN req : PfGetPage(r)
    \/ \E r \in DOMAIN req : PfScrapeReturn(r)
    \/ \E r \in DOMAIN req : PfSavePage(r)
    \/ \E r \in DOMAIN req : PfSaved(r)
    \/ \E i \in 1..Len(bull) : WkClaim(i)
    \/ \E i \in 1..Len(bull) : WkSetProcessing(i)
    \/ \E i \in 1..Len(bull) : WkScrapeReturn(i)
    \/ \E i \in 1..Len(bull) : WkSavePage(i)
    \/ \E i \in 1..Len(bull) : WkSetCompleted(i)
    \/ \E i \in 1..Len(bull) : WkSetFailed(i)
    \/ \E i \in 1..Len(bull) : BullPromote(i)

SpecPaths == InitPaths /\ [][NextPaths]_vars

\* no page of the slow tier and no search entry of the fast tier is empty
NoEmptyEntry(D, R) ==
    /\ \A ref \in DOMAIN D : Len(D[ref].vehicles) > 0
    /\ \A k \in DOMAIN R : k[1] = "search" => Len(R[k].value) > 0

\* the outcomes of a sync call whose fetch brought nothing
NegativeOutcomes == {"no-vehicles", "scrape-failed"}

\* C16: a fetch that throws or brings zero records writes nothing to either
\* tier, on the sync path, on the prefetch path and on the worker path, and
\* the sync caller gets an error; neither tier ever holds an empty page.
C16_NegativeNeverCached ==
    [][/\ \A r \in DOMAIN req :
             (req[r].pc = "scrape" /\ req'[r].pc \notin {"scrape", "savePage"})
                => /\ l2' = l2 /\ redis' = redis
                   /\ req'[r].pc = "done" /\ req'[r].out \in NegativeOutcomes
       /\ \A r \in DOMAIN pf :
             (pf[r].pc = "scrape" /\ pf'[r].pc \notin {"scrape", "savePage"})
                => l2' = l2 /\ redis' = redis
       /\ \A i \in 1..Len(bull) :
             (bull[i].step = "scrape" /\ Len(bull') = Len(bull)
                /\ bull'[i].step \in {"setFailed", "setCompleted"})
                => l2' = l2 /\ redis' = redis
       /\ \A i \in 1..Len(bull) :
             (bull[i].step \in {"setFailed", "setCompleted"} /\ bull[i].vehicles = <<>>
                /\ (Len(bull') < Len(bull) \/ (Len(bull') = Len(bull) /\ bull'[i] # bull[i])))
                => l2' = l2 /\ redis' = redis
       /\ NoEmptyEntry(l2', redis')]_vars

\* a sync call has ended on a fetch without records, a job's fetch has come
\* back empty, and both tiers hold no page
C16_Witness ==
    /\ \E r \in DOMAIN req : req[r].pc = "done" /\ req[r].out \in NegativeOutcomes
    /\ \E i \in 1..Len(bull) : bull[i].step = "setCompleted" /\ bull[i].vehicles = <<>>
    /\ l2 = <<>>
    /\ \A k \in DOMAIN redis : k[1] # "search"

\* ------------------------------------------------------------------------
\* Keys: one spelling of a query stores and locks, another looks up
\* ------------------------------------------------------------------------
KeyQueries ==
    { <<"h", "o">>, <<"H", "o">>, <<" ", "h", "o", " ">>,
      <<"h", " ", "o">>, <<"h", " ", " ", "o">>, <<"H", " ", " ", "O">> }

KeyPages == {1, 2}

keyFrame == <<owner, isConnected, req, pf, grants, jobOnly, lastAdm>>

\* the two spellings, what validateQuery makes of them, and what the lookup
\* under the second spelling found
NoKeyCall ==
    [pc |-> "validate", a |-> <<>>, b |-> <<>>, page |-> 0, limit |-> 0,
     sanitizedA |-> <<>>, sanitizedB |-> <<>>,
     seenLocked |-> FALSE, pageHit |-> FALSE, fastHit |-> FALSE]

\* intelligentSearch: validateQuery on each spelling
KeyValidate ==
    LET va == validateQuery(last.a)
        vb == validateQuery(last.b)
    IN /\ last.pc = "validate"
       /\ va.valid /\ vb.valid
       /\ last' = [last EXCEPT !.pc = "acquireLock", !.sanitizedA = va.sanitized,
                               !.sanitizedB = vb.sanitized]
       /\ UNCHANGED <<locks, now, redis, l2, keyFrame>>

\* the first spelling takes the lock
KeyAcquireLock ==
    /\ last.pc = "acquireLock"
    /\ \E rnd \in 1..NumRand :
          locks' = acquireLock(locks, now, rnd, last.sanitizedA, last.page, last.limit).locks
    /\ last' = [last EXCEPT !.pc = "savePage"]
    /\ UNCHANGED <<now, redis, l2, keyFrame>>

\* the first spelling stores its page in the slow tier
KeySavePage ==
    /\ last.pc = "savePage"
    /\ l2' = savePage(l2, now, last.sanitizedA, last.page, last.limit, <<Vehicle1>>)
    /\ last' = [last EXCEPT !.pc = "cacheSearchResults"]
    /\ UNCHANGED <<locks, now, redis, keyFrame>>

\* the first spelling stores its page in the fast tier
KeyCacheSearchResults ==
    /\ last.pc = "cacheSearchResults"
    /\ redis' = cacheSearchResults(redis, isConnected, now, last.sanitizedA, last.page,
                                   last.limit, <<Vehicle1>>)
    /\ last' = [last EXCEPT !.pc = "lookup"]
    /\ UNCHANGED <<locks, now, l2, keyFrame>>

\* the second spelling asks the lock map and both tiers
KeyLookup ==
    LET lk == isLocked(locks, now, last.sanitizedB, last.page, last.limit)
        pg == getPage(l2, now, last.sanitizedB, last.page, last.limit)
        l1 == getCachedSearchResults(redis, isConnected, now, last.sanitizedB,
                                     last.page, last.limit)
    IN /\ last.pc = "lookup"
       /\ locks' = lk.locks
       /\ l2' = pg.l2
       /\ last' = [last EXCEPT !.pc = "found", !.seenLocked = lk.ret,
                               !.pageHit = IsHit(pg.ret), !.fastHit = IsHit(l1)]
       /\ UNCHANGED <<now, redis, keyFrame>>

InitKeys ==
    /\ locks = <<>>
    /\ now = 0
    /\ owner = <<>>
    /\ redis = <<>>
    /\ isConnected = TRUE
    /\ l2 = <<>>
    /\ req = <<>>
    /\ pf = <<>>
    /\ grants = {}
    /\ \E a \in KeyQueries, b \in KeyQueries, p \in KeyPages, l \in Limits :
          last = [NoKeyCall EXCEPT !.a = a, !.b = b, !.page = p, !.limit = l]
    /\ jobsDb = <<>>
    /\ bull = <<>>
    /\ nextBatch = 0
    /\ ledger = <<>>
    /\ lastAdm = <<>>

NextKeys ==
    \/ KeyValidate
    \/ KeyAcquireLock
    \/ KeySavePage
    \/ KeyCacheSearchResults
    \/ KeyLookup

SpecKeys == InitKeys /\ [][NextKeys]_vars

\* the two spellings differ only in letter case or in leading, trailing or
\* repeated whitespace
SameLogicalQuery(a, b) ==
    collapseWhitespace(trim(toLowerCase(a))) = collapseWhitespace(trim(toLowerCase(b)))

\* C17: what one spelling of a query locked and stored, another spelling of
\* the same query sees as locked and finds in the slow tier and in the fast
\* tier.
C17_SameKeyAllTiers ==
    (last.pc = "found" /\ SameLogicalQuery(last.a, last.b))
        => last.seenLocked /\ last.pageHit /\ last.fastHit

\* ------------------------------------------------------------------------
\* Prefetch, with a Firestore write that can fail
\* ------------------------------------------------------------------------
\* prefetch: db...set(pageDoc) throws; savePage catches it and returns false,
\* and the prefetch goes on to the L1 write
PfSavePageFails(r) ==
    LET t == pf[r]
    IN /\ t.pc = "savePage"
       /\ pf' = [pf EXCEPT ![r].pc = "saved"]
       /\ UNCHANGED <<locks, now, owner, redis, isConnected, l2, req, notSearch>>

InitPrefetch ==
    /\ locks = <<>>
    /\ now = 0
    /\ owner = <<>>
    /\ redis = <<>>
    /\ isConnected = TRUE
    /\ l2 = <<>>
    /\ req = [r \in 1..NumReqs |-> IdleReq]
    /\ pf = [r \in 1..NumReqs |-> NoPrefetch]
    /\ grants = {}
    /\ last = NoCall
    /\ jobsDb = <<>>
    /\ bull = <<>>
    /\ nextBatch = 0
    /\ ledger = <<>>
    /\ lastAdm = <<>>

NextPrefetch ==
    \/ \E r \in DOMAIN req, q \in JobQueries, p \in Pages, l \in Limits, ip \in SearchIps :
          ReqStart(r, q, p, l, ip, NoApiKey, FALSE)
    \/ \E r \in DOMAIN req : ReqRateSet(r)
    \/ \E r \in DOMAIN req : ReqConcurrentGet(r)
    \/ \E r \in DOMAIN req : ReqL1Get(r)
    \/ \E r \in DOMAIN req : ReqL2GetSync(r)
    \/ \E r \in DOMAIN req : ReqWaitPoll(r)
    \/ \E r \in DOMAIN req : ReqScrapeReturn(r)
    \/ \E r \in DOMAIN req : ReqSavePage(r)
    \/ \E r \in DOMAIN req : ReqSaved(r)
    \/ \E r \in DOMAIN req : PfGetPage(r)
    \/ \E r \in DOMAIN req : PfScrapeReturn(r)
    \/ \E r \in DOMAIN req : PfSavePage(r)
    \/ \E r \in DOMAIN req : PfSavePageFails(r)
    \/ \E r \in DOMAIN req : PfSaved(r)

SpecPrefetch == InitPrefetch /\ [][NextPrefetch]_vars

\* the target of the prefetch is held in the fast tier or in the slow tier
TargetCached(t) ==
    \/ IsHit(getCachedSearchResults(redis, isConnected, now, t.query, t.page, t.limit))
    \/ IsHit(getPage(l2, now, t.query, t.page, t.limit).ret)

TargetLocked(t) == isLocked(locks, now, t.query, t.page, t.limit).ret

\* the lock of the target key is the one the prefetch was granted
HoldsTargetLock(L, t) ==
    LET k == getLockKey(t.query, t.page, t.limit)
    IN k \in DOMAIN L /\ L[k].lockId = t.lockId

\* C18: a prefetch whose target is cached in either tier or locked ends at
\* once, with the lock map and both tiers as they were; a prefetch that
\* fetches holds the lock of its target.
C18_PrefetchNoOp ==
    [][\A r \in DOMAIN pf :
          /\ (pf[r].pc = "getPage" /\ pf'[r] # pf[r]
                /\ (TargetCached(pf[r]) \/ TargetLocked(pf[r])))
                => /\ pf'[r].pc = "done"
                   /\ locks' = locks /\ redis' = redis /\ l2' = l2
          /\ pf'[r].pc = "scrape" => HoldsTargetLock(locks', pf'[r])]_vars

\* C19: a waiting caller gives up on its deadline only while the key is still
\* locked; once the owner has released the lock the caller leaves the wait
\* with the stored page or goes on to acquire the lock, so it never ends in
\* the wait's timeout with the key unlocked.
C19_WaitEndsWithRelease ==
    [][\A r \in DOMAIN req :
          (req[r].pc = "waitForScraping" /\ req'[r].pc = "done"
             /\ req'[r].out = "wait-timeout")
             => KeyLocked(req[r])]_vars

\* ------------------------------------------------------------------------
\* waitForLock, next to callers that acquire and release
\* ------------------------------------------------------------------------
\* const pollInterval = 2000
POLL_INTERVAL_MS == 2000

\* maxWaitMs: number = 15 * 60 * 1000
DEFAULT_MAX_WAIT_MS == 15 * 60 * 1000

MaxWaits == {0, POLL_INTERVAL_MS, 2 * POLL_INTERVAL_MS, DEFAULT_MAX_WAIT_MS}

\* the last instant of the clock
WaitHorizon == LOCK_TIMEOUT_MS + 1 + POLL_INTERVAL_MS

\* the instants Date.now() is read at
WaitTimes ==
    {0, POLL_INTERVAL_MS, 2 * POLL_INTERVAL_MS, 3 * POLL_INTERVAL_MS,
     LOCK_TIMEOUT_MS, LOCK_TIMEOUT_MS + 1, WaitHorizon}

NoWait ==
    [pc |-> "idle", query |-> <<>>, page |-> 0, limit |-> 0, maxWaitMs |-> 0,
     startWait |-> 0, wakeAt |-> 0, ret |-> FALSE]

waitFrame == <<grants, last, owner, redis, isConnected, l2, pf, jobOnly, lastAdm>>

\* elapsed >= maxWaitMs, with the comparison off by one
WaitTimedOut_Strict(elapsed, maxWaitMs) == elapsed > maxWaitMs

\* elapsed >= maxWaitMs
WaitTimedOut(elapsed, maxWaitMs) == elapsed >= maxWaitMs

\* waitForLock(query, page, limit, maxWaitMs): startWait = Date.now()
WaitStart(query, page, limit, maxWaitMs) ==
    /\ req[1].pc \in {"idle", "done"}
    /\ now + maxWaitMs <= WaitHorizon
    /\ req' = [req EXCEPT ![1] = [NoWait EXCEPT !.pc = "poll", !.query = query,
                                                !.page = page, !.limit = limit,
                                                !.maxWaitMs = maxWaitMs,
                                                !.startWait = now]]
    /\ UNCHANGED <<locks, now, waitFrame>>

\* one evaluation of the loop condition and of the body up to the sleep
WaitPoll ==
    LET w       == req[1]
        lk      == isLocked(locks, now, w.query, w.page, w.limit)
        elapsed == now - w.startWait
    IN /\ w.pc = "poll"
       /\ locks' = lk.locks
       /\ req' = [req EXCEPT ![1] =
                    IF ~lk.ret THEN [w EXCEPT !.pc = "done", !.ret = TRUE]
                    ELSE IF WaitTimedOut(elapsed, w.maxWaitMs)
                         THEN [w EXCEPT !.pc = "done", !.ret = FALSE]
                    ELSE [w EXCEPT !.pc = "sleep", !.wakeAt = now + POLL_INTERVAL_MS]]
       /\ UNCHANGED <<now, waitFrame>>

\* setTimeout(resolve, pollInterval) fires
WaitWake ==
    /\ req[1].pc = "sleep"
    /\ now >= req[1].wakeAt
    /\ req' = [req EXCEPT ![1].pc = "poll"]
    /\ UNCHANGED <<locks, now, waitFrame>>

\* another caller takes a lock
WaitAcquire(query, page, limit) ==
    /\ \E rnd \in 1..NumRand :
          locks' = acquireLock(locks, now, rnd, query, page, limit).locks
    /\ UNCHANGED <<now, req, waitFrame>>

\* the holder of a lock releases it
WaitRelease ==
    /\ \E k \in DOMAIN locks :
          locks' = releaseLock(locks, locks[k].query, locks[k].page, locks[k].limit,
                               locks[k].lockId).locks
    /\ UNCHANGED <<now, req, waitFrame>>

\* Date.now() moves on to a later instant
WaitAdvance ==
    /\ \E t \in WaitTimes : t > now /\ now' = t
    /\ UNCHANGED <<locks, req, waitFrame>>

InitWait ==
    /\ locks = <<>>
    /\ now = 0
    /\ owner = <<>>
    /\ redis = <<>>
    /\ isConnected = TRUE
    /\ l2 = <<>>
    /\ req = <<NoWait>>
    /\ pf = <<>>
    /\ grants = {}
    /\ last = NoCall
    /\ jobsDb = <<>>
    /\ bull = <<>>
    /\ nextBatch = 0
    /\ ledger = <<>>
    /\ lastAdm = <<>>

NextWait ==
    \/ \E q \in JobQueries, p \in JobPages, l \in Limits, m \in MaxWaits :
          WaitStart(q, p, l, m)
    \/ WaitPoll
    \/ WaitWake
    \/ \E q \in JobQueries, p \in Pages, l \in Limits : WaitAcquire(q, p, l)
    \/ WaitRelease
    \/ WaitAdvance

\* the event loop runs a ready continuation, a due timer fires, time passes
SpecWait ==
    /\ InitWait
    /\ [][NextWait]_vars
    /\ WF_vars(WaitPoll)
    /\ WF_vars(WaitWake)
    /\ WF_vars(WaitAdvance)

\* the token of the unexpired lock of a key, NoLockId when there is none
LiveLockId(L, t, k) ==
    IF k \in DOMAIN L /\ ~(t - L[k].startTime > LOCK_TIMEOUT_MS) THEN L[k].lockId
    ELSE NoLockId

\* C20: every poll of waitForLock ends the call with true exactly when the
\* key is not locked, ends it with false exactly when the key is locked and
\* maxWaitMs or more have passed since the call began, and otherwise sleeps;
\* no step of the call changes the holder of any key; and every call that
\* has begun ends.
C20_WaitForLock ==
    /\ [][req' # req /\ req[1].pc \in {"poll", "sleep"}
            => /\ \A k \in (DOMAIN locks) \cup (DOMAIN locks') :
                     LiveLockId(locks', now, k) = LiveLockId(locks, now, k)
               /\ req[1].pc = "poll"
                     => LET w      == req[1]
                            locked == LiveLockId(locks, now,
                                                 getLockKey(w.query, w.page, w.limit))
                                          # NoLockId
                            late   == now - w.startWait >= w.maxWaitMs
                        IN /\ (req'[1].pc = "done" /\ req'[1].ret) <=> ~locked
                           /\ (req'[1].pc = "done" /\ ~req'[1].ret) <=> (locked /\ late)
                           /\ req'[1].pc = "sleep" <=> (locked /\ ~late)]_vars
    /\ (req[1].pc \in {"poll", "sleep"}) ~> (req[1].pc = "done")

\* a call with a positive maxWaitMs has slept and has ended with false while
\* the key is still held
C20_Witness ==
    /\ req[1].pc = "done"
    /\ ~req[1].ret
    /\ req[1].maxWaitMs > 0
    /\ req[1].wakeAt > 0
    /\ LiveLockId(locks, now, getLockKey(req[1].query, req[1].page, req[1].limit)) # NoLockId

\* ------------------------------------------------------------------------
\* RetryOrchestrator
\* ------------------------------------------------------------------------
\* Math.pow(base, exponent) for a whole exponent >= 0
RECURSIVE MathPow(_, _)
MathPow(base, exponent) ==
    IF exponent = 0 THEN 1 ELSE base * MathPow(base, exponent - 1)

\* Math.min(a, b)
MathMin(a, b) == IF a < b THEN a ELSE b

\* calculateDelay without the cap
calculateDelay_Uncapped(attempt, options) ==
    options.initialDelay * MathPow(options.backoffMultiplier, attempt - 1)

calculateDelay(attempt, options) ==
    LET delay == options.initialDelay * MathPow(options.backoffMultiplier, attempt - 1)
    IN MathMin(delay, options.maxDelay)

\* what fn() can do: return data (an empty list included) or throw; a throw
\* of scrapeSearch on a block page carries 'Blocked by Copart'
RetryOutcomes ==
    { [ok |-> TRUE, data |-> <<>>, error |-> "none"],
      [ok |-> TRUE, data |-> <<Vehicle1>>, error |-> "none"],
      [ok |-> FALSE, data |-> <<>>, error |-> "blocked"],
      [ok |-> FALSE, data |-> <<>>, error |-> "failed"] }

\* the options the callers pass: the defaults, and those of CopartPlatform
RetryInitialDelays == {1000, 2000}

RetryMultipliers == {1, 2}

RetryMaxDelays == {10000}

\* onRetry is absent, resolves, or rejects
RetryHooks == {"none", "resolves", "rejects"}

NoRetryResult == [success |-> FALSE, data |-> <<>>, error |-> "none", attempts |-> 0]

\* one call of executeWithRetry: its options, the loop variable, what each
\* fn() call did, the hook calls, the delays slept, and how it ended
NoRetry ==
    [pc |-> "idle",
     opts |-> [maxAttempts |-> 0, initialDelay |-> 0, maxDelay |-> 0,
               backoffMultiplier |-> 0, onRetry |-> "none"],
     attempt |-> 0, lastError |-> "none", calls |-> <<>>, hooks |-> <<>>,
     delays |-> <<>>, delay |-> 0, result |-> NoRetryResult, thrown |-> "none"]

\* attempt <= opts.maxAttempts, the condition of the for loop
LoopContinues(attempt, opts) == attempt <= opts.maxAttempts

\* the catch block that waits after every failure
ShouldWait_Always(attempt, opts) == TRUE

\* attempt < opts.maxAttempts, the condition of the wait in the catch block
ShouldWait(attempt, opts) == attempt < opts.maxAttempts

retryFrame == <<locks, grants, last, owner, redis, isConnected, l2, pf, jobOnly, lastAdm>>

\* executeWithRetry(fn, options): opts, startTime, attempt = 1
RetryStart(opts) ==
    /\ req[1].pc = "idle"
    /\ req' = [req EXCEPT ![1] = [NoRetry EXCEPT !.pc = IF LoopContinues(1, opts)
                                                          THEN "fn" ELSE "exhausted",
                                                  !.opts = opts, !.attempt = 1]]
    /\ UNCHANGED <<now, retryFrame>>

\* await fn(): it returns, or it throws into the catch block
RetryCallFn ==
    LET c == req[1]
    IN /\ c.pc = "fn"
       /\ \E o \in RetryOutcomes :
            req' = [req EXCEPT ![1] =
                      IF o.ok
                      THEN [c EXCEPT !.pc = "returned", !.calls = Append(@, o),
                                     !.result = [success |-> TRUE, data |-> o.data,
                                                 error |-> "none", attempts |-> c.attempt]]
                      ELSE IF ShouldWait(c.attempt, c.opts)
                      THEN [c EXCEPT !.pc = IF c.opts.onRetry # "none" THEN "onRetry"
                                            ELSE "sleep",
                                     !.calls = Append(@, o), !.lastError = o.error,
                                     !.delay = calculateDelay(c.attempt, c.opts)]
                      ELSE [c EXCEPT !.pc = "exhausted", !.calls = Append(@, o),
                                     !.lastError = o.error, !.attempt = @ + 1]]
       /\ UNCHANGED <<now, retryFrame>>

\* await opts.onRetry(attempt, error), inside the catch block: a rejection
\* leaves executeWithRetry as an exception
RetryOnRetry ==
    LET c == req[1]
    IN /\ c.pc = "onRetry"
       /\ req' = [req EXCEPT ![1] =
                    IF c.opts.onRetry = "rejects"
                    THEN [c EXCEPT !.pc = "threw", !.hooks = Append(@, c.attempt),
                                   !.thrown = "onRetry"]
                    ELSE [c EXCEPT !.pc = "sleep", !.hooks = Append(@, c.attempt)]]
       /\ UNCHANGED <<now, retryFrame>>

\* await this.sleep(delay), then attempt++
RetrySleep ==
    LET c == req[1]
    IN /\ c.pc = "sleep"
       /\ now' = now + c.delay
       /\ req' = [req EXCEPT ![1].pc = IF LoopContinues(c.attempt + 1, c.opts)
                                        THEN "fn" ELSE "exhausted",
                             ![1].delays = Append(@, c.delay),
                             ![1].attempt = @ + 1]
       /\ UNCHANGED retryFrame

\* the loop is over without a success
RetryExhausted ==
    LET c == req[1]
    IN /\ c.pc = "exhausted"
       /\ req' = [req EXCEPT ![1].pc = "returned",
                             ![1].result = [success |-> FALSE, data |-> <<>>,
                                            error |-> c.lastError,
                                            attempts |-> c.opts.maxAttempts]]
       /\ UNCHANGED <<now, retryFrame>>

InitRetry ==
    /\ locks = <<>>
    /\ now = 0
    /\ owner = <<>>
    /\ redis = <<>>
    /\ isConnected = TRUE
    /\ l2 = <<>>
    /\ req = <<NoRetry>>
    /\ pf = <<>>
    /\ grants = {}
    /\ last = NoCall
    /\ jobsDb = <<>>
    /\ bull = <<>>
    /\ nextBatch = 0
    /\ ledger = <<>>
    /\ lastAdm = <<>>

NextRetry ==
    \/ \E n \in 1..MaxRetryAttempts, i \in RetryInitialDelays, m \in RetryMaxDelays,
          b \in RetryMultipliers, h \in RetryHooks :
          RetryStart([maxAttempts |-> n, initialDelay |-> i, maxDelay |-> m,
                      backoffMultiplier |-> b, onRetry |-> h])
    \/ RetryCallFn
    \/ RetryOnRetry
    \/ RetrySleep
    \/ RetryExhausted

\* the event loop runs a ready continuation and a due timer fires
SpecRetry ==
    /\ InitRetry
    /\ [][NextRetry]_vars
    /\ WF_vars(RetryCallFn)
    /\ WF_vars(RetryOnRetry)
    /\ WF_vars(RetrySleep)
    /\ WF_vars(RetryExhausted)

\* the delays of the options of the retry sequence the specification quotes
QuotedDelays == <<1000, 2000, 4000, 8000, 10000, 10000>>

\* C21: the first delay is the initial delay or the cap, each later delay is
\* the one before it times the multiplier or the cap, whichever is smaller;
\* so the delays never decrease and never exceed maxDelay, and for initial
\* delay 1000, multiplier 2 and cap 10000 they are 1000, 2000, 4000, 8000,
\* 10000, 10000.
C21_DelaySequence ==
    LET c == req[1]
        d == c.delays
    IN /\ \A n \in 1..Len(d) :
             /\ d[n] <= c.opts.maxDelay
             /\ n = 1 => d[n] = MathMin(c.opts.initialDelay, c.opts.maxDelay)
             /\ n > 1 => /\ d[n] >= d[n - 1]
                         /\ d[n] = MathMin(d[n - 1] * c.opts.backoffMultiplier,
                                           c.opts.maxDelay)
       /\ (c.opts.initialDelay = 1000 /\ c.opts.backoffMultiplier = 2
             /\ c.opts.maxDelay = 10000 /\ Len(d) <= Len(QuotedDelays))
             => d = SubSeq(QuotedDelays, 1, Len(d))

\* the quoted options have run through six retries
C21_Witness ==
    /\ req[1].opts.initialDelay = 1000
    /\ req[1].opts.backoffMultiplier = 2
    /\ req[1].delays = QuotedDelays

\* the call of executeWithRetry is over
RetryEnded == req[1].pc \in {"returned", "threw"}

AllFailed(calls) == \A i \in 1..Len(calls) : ~calls[i].ok

\* C22: fn is invoked at most maxAttempts times and never after a success; a
\* call that returns success does so with the data and the number of the
\* attempt that succeeded; a call that returns failure has made maxAttempts
\* invocations, all failed, and carries the error of the last; there is one
\* wait fewer than invocations; maxAttempts failed invocations lead to the
\* failure result, and every call that has begun ends.
C22_BoundedAttempts ==
    /\ [](LET c == req[1]
              n == Len(c.calls)
          IN /\ n <= c.opts.maxAttempts
             /\ \A i \in 1..(n - 1) : ~c.calls[i].ok
             /\ (c.pc = "returned" /\ c.result.success)
                   => /\ c.calls[n].ok
                      /\ c.result.attempts = n
                      /\ c.result.data = c.calls[n].data
                      /\ Len(c.delays) = n - 1
             /\ (c.pc = "returned" /\ ~c.result.success)
                   => /\ AllFailed(c.calls)
                      /\ n = c.opts.maxAttempts
                      /\ c.result.attempts = c.opts.maxAttempts
                      /\ c.result.error = c.calls[n].error
                      /\ Len(c.delays) = n - 1)
    /\ [][req[1].pc \in {"returned", "threw"} => req' = req]_vars
    /\ (Len(req[1].calls) = req[1].opts.maxAttempts /\ AllFailed(req[1].calls)
          /\ req[1].pc # "idle")
          ~> (req[1].pc = "returned" /\ ~req[1].result.success)
    /\ (req[1].pc # "idle") ~> RetryEnded

\* three attempts with two waits in between, all failed, ended in the
\* failure result
C22_Witness ==
    /\ req[1].pc = "returned"
    /\ ~req[1].result.success
    /\ req[1].result.attempts = 3
    /\ Len(req[1].calls) = 3
    /\ Len(req[1].delays) = 2

\* C23: a hook that rejects does not end the call: executeWithRetry never
\* leaves with the hook's exception, and a call whose hook has rejected is
\* still in its loop or has returned a result.
C23_HookFailureContained ==
    /\ req[1].pc # "threw"
    /\ req[1].thrown = "none"

\* ------------------------------------------------------------------------
\* RetryOrchestrator.executeStrategies
\* ------------------------------------------------------------------------
\* one call of executeStrategies: the length of the list, the loop variable,
\* which strategy each invocation ran and what it did, and the result
NoStrategies ==
    [pc |-> "idle", length |-> 0, i |-> 0, lastError |-> "none", calls |-> <<>>,
     result |-> NoRetryResult]

\* attempts: i, the position counted from zero
StrategyAttempts_ZeroBased(i) == i

\* attempts: i + 1
StrategyAttempts(i) == i + 1

\* executeStrategies(strategies): startTime, i = 0
StrategiesStart(length) ==
    /\ req[1].pc = "idle"
    /\ req' = [req EXCEPT ![1] = [NoStrategies EXCEPT !.pc = IF 0 < length THEN "strategy"
                                                               ELSE "exhausted",
                                                       !.length = length]]
    /\ UNCHANGED <<now, retryFrame>>

\* await strategies[i](): it returns, or it throws into the catch block and
\* the loop goes on with i + 1
StrategiesCall ==
    LET c == req[1]
    IN /\ c.pc = "strategy"
       /\ \E o \in RetryOutcomes :
            LET call == [index |-> c.i, ok |-> o.ok, data |-> o.data, error |-> o.error]
            IN req' = [req EXCEPT ![1] =
                         IF o.ok
                         THEN [c EXCEPT !.pc = "returned", !.calls = Append(@, call),
                                        !.result = [success |-> TRUE, data |-> o.data,
                                                    error |-> "none",
                                                    attempts |-> StrategyAttempts(c.i)]]
                         ELSE [c EXCEPT !.pc = IF c.i + 1 < c.length THEN "strategy"
                                               ELSE "exhausted",
                                        !.calls = Append(@, call),
                                        !.lastError = o.error, !.i = @ + 1]]
       /\ UNCHANGED <<now, retryFrame>>

\* the loop is over without a success
StrategiesExhausted ==
    LET c == req[1]
    IN /\ c.pc = "exhausted"
       /\ req' = [req EXCEPT ![1].pc = "returned",
                             ![1].result = [success |-> FALSE, data |-> <<>>,
                                            error |-> c.lastError,
                                            attempts |-> c.length]]
       /\ UNCHANGED <<now, retryFrame>>

InitStrategies ==
    /\ locks = <<>>
    /\ now = 0
    /\ owner = <<>>
    /\ redis = <<>>
    /\ isConnected = TRUE
    /\ l2 = <<>>
    /\ req = <<NoStrategies>>
    /\ pf = <<>>
    /\ grants = {}
    /\ last = NoCall
    /\ jobsDb = <<>>
    /\ bull = <<>>
    /\ nextBatch = 0
    /\ ledger = <<>>
    /\ lastAdm = <<>>

NextStrategies ==
    \/ \E n \in 0..MaxStrategies : StrategiesStart(n)
    \/ StrategiesCall
    \/ StrategiesExhausted

SpecStrategies == InitStrategies /\ [][NextStrategies]_vars

\* C24: the k-th invocation runs the k-th strategy of the list, so the
\* strategies run in list order and each at most once; no invocation follows
\* a success; a success result names the 1-based position of the strategy
\* that succeeded and carries its data; a failure result comes after every
\* strategy has failed and carries the error of the last one; a call that
\* has returned invokes nothing more.
C24_StrategiesInOrder ==
    [][LET c == req'[1]
           n == Len(c.calls)
       IN /\ n <= c.length
          /\ \A k \in 1..n : c.calls[k].index = k - 1
          /\ \A k \in 1..(n - 1) : ~c.calls[k].ok
          /\ (c.pc = "returned" /\ c.result.success)
                => /\ c.calls[n].ok
                   /\ c.result.attempts = n
                   /\ c.result.data = c.calls[n].data
          /\ (c.pc = "returned" /\ ~c.result.success)
                => /\ n = c.length
                   /\ AllFailed(c.calls)
                   /\ n > 0 => c.result.error = c.calls[n].error
          /\ req[1].pc = "returned" => req' = req]_vars

\* the second of three strategies succeeded after the first failed
C24_Witness ==
    /\ req[1].pc = "returned"
    /\ req[1].length = 3
    /\ req[1].result.success
    /\ req[1].result.attempts = 2
    /\ Len(req[1].calls) = 2

\* C25: the wait after a blocked failure at attempt n is longer than the
\* normal backoff of attempt n, the wait after any other failure is the
\* normal backoff, and nothing is invoked after a fetch that returned, with
\* or without records.
C25_BlockedWaitsLonger ==
    LET c == req[1]
    IN /\ \A n \in 1..Len(c.delays) :
             /\ c.calls[n].error = "blocked" => c.delays[n] > calculateDelay(n, c.opts)
             /\ c.calls[n].error = "failed" => c.delays[n] = calculateDelay(n, c.opts)
       /\ \A k \in 1..(Len(c.calls) - 1) : ~c.calls[k].ok

\* ------------------------------------------------------------------------
\* Concurrent canSubmitJob calls of one identity near its rate limit
\* ------------------------------------------------------------------------
\* the calls of the identity already allowed in the window
PriorCalls == RATE_LIMIT_IP - 1

RECURSIVE PriorRateState(_)
\* the counter store after n calls made one after the other, each allowed
PriorRateState(n) ==
    IF n = 0 THEN <<>>
    ELSE checkRateLimit(PriorRateState(n - 1), TRUE, 0, RaceIp, NoApiKey).redis

InitRate ==
    /\ locks = <<>>
    /\ now = 0
    /\ owner = <<>>
    /\ redis = PriorRateState(PriorCalls)
    /\ isConnected = TRUE
    /\ l2 = <<>>
    /\ req = [r \in 1..NumRaceReqs |-> IdleReq]
    /\ pf = [r \in 1..NumRaceReqs |-> NoPrefetch]
    /\ grants = {}
    /\ last = NoCall
    /\ jobsDb = <<>>
    /\ bull = <<>>
    /\ nextBatch = 0
    /\ ledger = <<>>
    /\ lastAdm = <<>>

NextRate ==
    \/ \E r \in DOMAIN req, q \in SearchQueries, p \in Pages, l \in Limits :
          ReqStart(r, q, p, l, RaceIp, NoApiKey, FALSE)
    \/ \E r \in DOMAIN req : ReqRateSet(r)
    \/ \E r \in DOMAIN req : ReqConcurrentGet(r)

SpecRate == InitRate /\ [][NextRate]_vars

\* the calls of this behaviour that checkRateLimit has allowed
AllowedByRateLimit ==
    {r \in DOMAIN req : \/ req[r].pc \in {"concurrentGet", "l1Get"}
                        \/ req[r].pc = "done" /\ req[r].out # "rate-limit"}

\* C26: within one window the calls of an identity that the rate limit has
\* allowed number at most maxRequests, whatever the interleaving.
C26_RateLimitHolds ==
    PriorCalls + Cardinality(AllowedByRateLimit) <= MaxRequests(NoApiKey)

\* ------------------------------------------------------------------------
\* GET /vehicles: the route in front of intelligentSearch
\* ------------------------------------------------------------------------
ROUTE_QUERY_MAX == 200

ROUTE_QUERY_MIN == 2

ROUTE_MAX_PAGE == 1000

ROUTE_MAX_LIMIT == 100

SANITIZED_MAX == 100

\* the checks of the route on query, page and limit; the queries drawn here
\* hold no markup, SQL or path characters, so containsXSS,
\* containsSQLInjection and containsPathTraversal answer false
routeValidate(query, page, limit) ==
    /\ Len(query) <= ROUTE_QUERY_MAX
    /\ Len(query) >= ROUTE_QUERY_MIN
    /\ page >= 1 /\ page <= ROUTE_MAX_PAGE
    /\ limit >= 1 /\ limit <= ROUTE_MAX_LIMIT

\* sanitizeQuery on a query without dangerous characters: trimmed, at most
\* 100 characters
\* the characters sanitizeQuery removes: HTML/script characters and shell
\* metacharacters ("backtick" stands for the grave accent character)
RemovedChars == {"<", ">", "\"", "'", ";", "$", "backtick", "|", "&"}

\* the return expression of sanitizeQuery (its attack checks come before it)
sanitizeQuery(query) ==
    LET kept == SelectSeq(query, LAMBDA c : c \notin RemovedChars)
        t    == trim(kept)
    IN SubSeq(t, 1, MathMin(Len(t), SANITIZED_MAX))

\* no retryAfterSeconds in the response
NoRetryAfter == "none"

\* the outcomes intelligentSearch returns; every other outcome is an Error
\* it throws
ReturnedOutcomes == {"redis", "cache", "lock-wait", "live", "queued"}

\* what the route answers: res.json of the result, the 400 of its own
\* checks, or the 500 of its catch block
RouteResponse(out) ==
    IF out = "route-validation"
    THEN [status |-> 400, code |-> "VALIDATION_ERROR", retryAfterSeconds |-> NoRetryAfter,
          stack |-> FALSE]
    ELSE IF out \in ReturnedOutcomes
    THEN [status |-> 200, code |-> "none", retryAfterSeconds |-> NoRetryAfter,
          stack |-> FALSE]
    ELSE [status |-> 500, code |-> "INTERNAL_ERROR", retryAfterSeconds |-> NoRetryAfter,
          stack |-> FALSE]

\* the handler up to the first await of intelligentSearch
RouteHandle(r, query, page, limit, clientIp, apiKey, async) ==
    IF routeValidate(query, page, limit)
    THEN ReqStart(r, sanitizeQuery(query), page, limit, clientIp, apiKey, async)
    ELSE /\ req[r].pc = "idle"
         /\ req' = [req EXCEPT ![r] = Finish(IdleReq, "route-validation")]
         /\ UNCHANGED <<locks, now, owner, redis, isConnected, l2, pf, notSearch>>

\* query, page and limit of the requests: valid, too short for the route,
\* too short once trimmed, a page above each ceiling, a limit above the cap
RouteInputs ==
    { <<<<"h", "o">>, 1, 10>>, <<<<"h">>, 1, 10>>, <<<<"h", " ">>, 1, 10>>,
      <<<<"h", "o">>, MAX_PAGE_NUMBER + 1, 10>>, <<<<"h", "o">>, ROUTE_MAX_PAGE + 1, 10>>,
      <<<<"h", "o">>, 1, MAX_SCRAPE_LIMIT + 1>> }

\* the stores when the requests arrive: empty, the identity one call below
\* its rate limit, or the identity with as many queued jobs as its cap
RouteStores ==
    { [redis |-> <<>>, bull |-> <<>>, jobsDb |-> <<>>, ledger |-> <<>>, nextBatch |-> 0],
      [redis |-> PriorRateState(PriorCalls), bull |-> <<>>, jobsDb |-> <<>>,
       ledger |-> <<>>, nextBatch |-> 0],
      [redis |-> PriorState(MAX_JOBS_PER_IP).redis, bull |-> PriorState(MAX_JOBS_PER_IP).bull,
       jobsDb |-> PriorState(MAX_JOBS_PER_IP).jobsDb,
       ledger |-> PriorState(MAX_JOBS_PER_IP).ledger, nextBatch |-> MAX_JOBS_PER_IP] }

InitRoute ==
    /\ locks = <<>>
    /\ now = 0
    /\ owner = <<>>
    /\ isConnected = TRUE
    /\ l2 = <<>>
    /\ req = [r \in 1..NumRaceReqs |-> IdleReq]
    /\ pf = [r \in 1..NumRaceReqs |-> NoPrefetch]
    /\ grants = {}
    /\ last = NoCall
    /\ \E st \in RouteStores :
          /\ redis = st.redis
          /\ jobsDb = st.jobsDb
          /\ bull = st.bull
          /\ nextBatch = st.nextBatch
          /\ ledger = st.ledger
    /\ lastAdm = <<>>

NextRoute ==
    \/ \E r \in DOMAIN req, in \in RouteInputs, async \in BOOLEAN :
          RouteHandle(r, in[1], in[2], in[3], RaceIp, NoApiKey, async)
    \/ \E r \in DOMAIN req : ReqRateSet(r)
    \/ \E r \in DOMAIN req : ReqConcurrentGet(r)
    \/ \E r \in DOMAIN req : ReqL1Get(r)
    \/ \E r \in DOMAIN req : ReqL2GetSync(r)
    \/ \E r \in DOMAIN req : ReqWaitPoll(r)
    \/ \E r \in DOMAIN req : ReqScrapeReturn(r)
    \/ \E r \in DOMAIN req : ReqSavePage(r)
    \/ \E r \in DOMAIN req : ReqSaved(r)
    \/ \E r \in DOMAIN req : ReqL2GetAsync(r)
    \/ \E r \in DOMAIN req : ReqIncrementGet(r)
    \/ \E r \in DOMAIN req : ReqIncrementSet(r)
    \/ \E r \in DOMAIN req : ReqAddJob(r)
    \/ \E r \in DOMAIN req : ReqSetQueued(r)
    \/ \E r \in DOMAIN req : ReqDecrementGet(r)
    \/ \E r \in DOMAIN req : ReqDecrementSet(r)

SpecRoute == InitRoute /\ [][NextRoute]_vars

\* the outcomes of a request turned away by the route's checks, by
\* canSubmitJob, by validateQuery or by validatePagination
DeniedOutcomes ==
    {"route-validation", "rate-limit", "concurrent-limit", "invalid-query",
     "invalid-pagination"}

\* where a request is before intelligentSearch has passed its checks
AdmissionPcs == {"idle", "rateSet", "concurrentGet", "done"}

\* the arguments intelligentSearch received break a rule of validateQuery or
\* validatePagination
BreaksRules(rq) ==
    \/ rq.page < 1 \/ rq.page > MAX_PAGE_NUMBER
    \/ rq.limit < MIN_LIMIT \/ rq.limit > MAX_SCRAPE_LIMIT
    \/ Len(rq.query) < QUERY_MIN_LENGTH \/ Len(rq.query) > QUERY_MAX_LENGTH

\* C27: a request whose arguments break a validation rule never gets past
\* the checks of intelligentSearch; and the step that turns a request away
\* is taken before any cache lookup, by a request that holds no lock, has
\* called no fetch and has no batchId, and it leaves the lock map, both
\* stores, the job records and the queue as they were.
C27_RejectedNeverExecutes ==
    [][\A r \in DOMAIN req :
          /\ (req'[r].pc # "idle" /\ req'[r].pc # "done" /\ BreaksRules(req'[r]))
                => req'[r].pc \in AdmissionPcs
          /\ (req[r].pc # "done" /\ req'[r].pc = "done" /\ req'[r].out \in DeniedOutcomes)
                => /\ req[r].pc \in {"idle", "concurrentGet"}
                   /\ req[r].fetches = 0
                   /\ req[r].lockId = NoLockId
                   /\ req[r].batchId = 0
                   /\ req'[r].batchId = 0
                   /\ locks' = locks /\ redis' = redis /\ l2' = l2
                   /\ bull' = bull /\ jobsDb' = jobsDb /\ nextBatch' = nextBatch]_vars

\* one request was turned away by validatePagination and another by the
\* rate limit, and nothing was locked, stored or queued
C27_Witness ==
    /\ \E r \in DOMAIN req : req[r].pc = "done" /\ req[r].out = "invalid-pagination"
    /\ \E r \in DOMAIN req : req[r].pc = "done" /\ req[r].out = "rate-limit"
    /\ locks = <<>>
    /\ l2 = <<>>
    /\ bull = <<>>

\* C28: the answer to a request that was turned away carries an error code
\* of its own, not the generic internal-error code, a numeric retry-after
\* for a rate-limit denial, and no stack.
C28_StableErrorCodes ==
    \A r \in DOMAIN req :
        (req[r].pc = "done" /\ req[r].out \in DeniedOutcomes)
            => /\ RouteResponse(req[r].out).code # "INTERNAL_ERROR"
               /\ req[r].out = "rate-limit"
                     => RouteResponse(req[r].out).retryAfterSeconds # NoRetryAfter
               /\ ~RouteResponse(req[r].out).stack

\* ------------------------------------------------------------------------
\* The sync path with cache tiers that fail
\* ------------------------------------------------------------------------
\* history: per request, the tier operations that failed for it
NoFailures == [r \in 1..NumRaceReqs |-> {}]

Failed(r, what) == last' = [last EXCEPT ![r] = @ \cup {what}]

tierFrame == <<grants, jobOnly, lastAdm>>

\* the Redis client's 'error' / 'disconnect' and 'connect' events
TierConnection ==
    /\ isConnected' = ~isConnected
    /\ UNCHANGED <<locks, now, last, owner, redis, l2, req, pf, tierFrame>>

\* 1. L1 lookup: client.get throws; get catches it and returns null
TierL1GetFails(r) ==
    LET rq == req[r]
    IN /\ rq.pc = "l1Get"
       /\ isConnected
       /\ req' = [req EXCEPT ![r].pc = "l2Get"]
       /\ Failed(r, "l1Read")
       /\ UNCHANGED <<locks, now, owner, redis, isConnected, l2, pf, tierFrame>>

\* 2. L2 lookup: the Firestore read throws; getPage catches it and returns
\* null, and isLocked and acquireLock follow as on a miss
TierL2GetFails(r) ==
    LET rq == req[r]
        lk == isLocked(locks, now, rq.sanitizedQuery, rq.page, rq.limit)
        k  == getLockKey(rq.sanitizedQuery, rq.page, rq.limit)
    IN /\ rq.pc = "l2Get"
       /\ ~rq.async
       /\ IF lk.ret
          THEN /\ req' = [req EXCEPT ![r].pc = "waitForScraping", ![r].startTime = now]
               /\ locks' = lk.locks
               /\ owner' = OwnerKept(lk.locks)
          ELSE \E rnd \in 1..NumRand :
                 LET acq == acquireLock(lk.locks, now, rnd, rq.sanitizedQuery, rq.page, rq.limit)
                 IN /\ locks' = acq.locks
                    /\ IF acq.ret = NoLockId
                       THEN /\ req' = [req EXCEPT ![r] = Finish(rq, "no-lock")]
                            /\ owner' = OwnerKept(acq.locks)
                       ELSE /\ req' = [req EXCEPT ![r].pc = "scrape", ![r].lockId = acq.ret,
                                                  ![r].fetches = @ + 1]
                            /\ owner' = OwnerAfter(acq.locks, k, <<"req", r>>)
       /\ Failed(r, "l2Read")
       /\ UNCHANGED <<now, redis, isConnected, l2, pf, tierFrame>>

\* savePage that lets the error of the Firestore write through: the request
\* ends with it, through the finally block
TierSavePageFails_Throws(r) ==
    LET rq  == req[r]
        rel == releaseLock(locks, rq.sanitizedQuery, rq.page, rq.limit, rq.lockId)
    IN /\ rq.pc = "savePage"
       /\ req' = [req EXCEPT ![r] = Finish(rq, "save-failed")]
       /\ locks' = rel.locks
       /\ owner' = OwnerKept(rel.locks)
       /\ Failed(r, "l2Write")
       /\ UNCHANGED <<now, redis, isConnected, l2, pf, tierFrame>>

\* performScraping: db...set(pageDoc) throws; savePage catches it and returns
\* false, which performScraping does not look at
TierSavePageFails(r) ==
    LET rq == req[r]
    IN /\ rq.pc = "savePage"
       /\ req' = [req EXCEPT ![r].pc = "saved"]
       /\ Failed(r, "l2Write")
       /\ UNCHANGED <<locks, now, owner, redis, isConnected, l2, pf, tierFrame>>

\* performScraping: client.setEx throws; set catches it and returns false;
\* prefetch, result and the finally block follow
TierSavedL1Fails(r) ==
    LET rq  == req[r]
        rel == releaseLock(locks, rq.sanitizedQuery, rq.page, rq.limit, rq.lockId)
    IN /\ rq.pc = "saved"
       /\ isConnected
       /\ pf' = [pf EXCEPT ![r] = StartPrefetch(rq.sanitizedQuery, rq.page, rq.limit)]
       /\ req' = [req EXCEPT ![r] = FinishWith(rq, "live", rq.vehicles)]
       /\ locks' = rel.locks
       /\ owner' = OwnerKept(rel.locks)
       /\ Failed(r, "l1Write")
       /\ UNCHANGED <<now, redis, isConnected, l2, tierFrame>>

InitTiers ==
    /\ locks = <<>>
    /\ now = 0
    /\ owner = <<>>
    /\ redis = <<>>
    /\ isConnected \in BOOLEAN
    /\ l2 = <<>>
    /\ req = [r \in 1..NumRaceReqs |-> IdleReq]
    /\ pf = [r \in 1..NumRaceReqs |-> NoPrefetch]
    /\ grants = {}
    /\ last = NoFailures
    /\ jobsDb = <<>>
    /\ bull = <<>>
    /\ nextBatch = 0
    /\ ledger = <<>>
    /\ lastAdm = <<>>

NextTiers ==
    \/ \E r \in DOMAIN req, q \in JobQueries, p \in JobPages, l \in Limits :
          ReqStart(r, q, p, l, RaceIp, NoApiKey, FALSE)
    \/ \E r \in DOMAIN req : ReqRateSet(r)
    \/ \E r \in DOMAIN req : ReqConcurrentGet(r)
    \/ \E r \in DOMAIN req : ReqL1Get(r)
    \/ \E r \in DOMAIN req : ReqL2GetSync(r)
    \/ \E r \in DOMAIN req : ReqWaitPoll(r)
    \/ \E r \in DOMAIN req : ReqScrapeReturn(r)
    \/ \E r \in DOMAIN req : ReqSavePage(r)
    \/ \E r \in DOMAIN req : ReqSaved(r)
    \/ \E r \in DOMAIN req : TierL1GetFails(r)
    \/ \E r \in DOMAIN req : TierL2GetFails(r)
    \/ \E r \in DOMAIN req : TierSavePageFails(r)
    \/ \E r \in DOMAIN req : TierSavedL1Fails(r)
    \/ TierConnection

SpecTiers == InitTiers /\ [][NextTiers]_vars

\* the operation failed for request r in this step
FailsNow(r, what) == what \in last'[r] /\ what \notin last[r]

FetchPcs == {"waitForScraping", "scrape", "savePage", "saved"}

\* the messages in the queue that carry batchId b
MessagesOf(q, b) == {i \in DOMAIN q : q[i].batchId = b}

\* C30: an async request that misses both tiers draws a batchId no request,
\* job record or message has carried before, never fetches and never takes
\* or waits for a lock, and returns source queued with that batchId after
\* its message was enqueued; the messages carrying a batchId only increase
\* in the addJob step of the request that drew it, from none to one.
C30_PendingHandle ==
    [][/\ \A r \in DOMAIN req :
            LET rq  == req[r]
                rq2 == req'[r]
            IN /\ rq2.async
                    => rq2.pc \notin FetchPcs /\ rq2.fetches = 0 /\ rq2.lockId = NoLockId
               /\ (rq.async /\ rq.pc = "l2Get" /\ rq2.pc = "incrementGet")
                    => /\ rq2.batchId # 0
                       /\ rq2.batchId \notin DOMAIN ledger
                       /\ rq2.batchId \notin DOMAIN jobsDb
                       /\ MessagesOf(bull, rq2.batchId) = {}
                       /\ \A o \in DOMAIN req : req[o].batchId # rq2.batchId
                       /\ locks' = locks
               /\ (rq.pc # "done" /\ rq2.pc = "done" /\ rq2.out = "queued")
                    => /\ rq.async /\ rq.pc = "setQueued"
                       /\ rq2.batchId = rq.batchId /\ rq.batchId # 0
                       /\ ledger[rq.batchId].enqueued
                       /\ jobsDb'[rq.batchId].status = "queued"
                       /\ rq.fetches = 0 /\ rq.lockId = NoLockId
                       /\ locks' = locks
       /\ \A b \in 1..nextBatch' :
            Cardinality(MessagesOf(bull', b)) > Cardinality(MessagesOf(bull, b))
               => /\ MessagesOf(bull, b) = {}
                  /\ Cardinality(MessagesOf(bull', b)) = 1
                  /\ ~ledger[b].enqueued
                  /\ \E r \in DOMAIN req : req[r].pc = "addJob" /\ req[r].batchId = b]_vars

\* two async requests returned queued with different batchIds, nothing was
\* locked, and the message of one of them is still in the queue
C30_Witness ==
    \E r1, r2 \in DOMAIN req :
        /\ req[r1].pc = "done" /\ req[r1].out = "queued"
        /\ req[r2].pc = "done" /\ req[r2].out = "queued"
        /\ req[r1].batchId # req[r2].batchId
        /\ req[r1].batchId # 0 /\ req[r2].batchId # 0
        /\ Cardinality(MessagesOf(bull, req[r1].batchId)) = 1
        /\ locks = <<>>

\* ------------------------------------------------------------------------
\* The dequeue order of the durable queue
\* ------------------------------------------------------------------------
\* a small request (normal priority) and a large one (low priority)
PriorityLimits == {10, 50}

\* high before normal before low
PriorityRank(priority) ==
    IF priority = "high" THEN 3 ELSE IF priority = "normal" THEN 2 ELSE 1

InitPriority ==
    /\ locks = <<>>
    /\ now = 0
    /\ owner = <<>>
    /\ redis = <<>>
    /\ isConnected = TRUE
    /\ l2 = <<>>
    /\ req = [r \in JobReqs |-> IdleReq]
    /\ pf = [r \in JobReqs |-> NoPrefetch]
    /\ grants = {}
    /\ last = NoCall
    /\ jobsDb = <<>>
    /\ bull = <<>>
    /\ nextBatch = 0
    /\ ledger = <<>>
    /\ lastAdm = <<>>

NextPriority ==
    \/ \E r \in DOMAIN req, q \in JobQueries, p \in JobPages, l \in PriorityLimits :
          ReqStart(r, q, p, l, RaceIp, NoApiKey, TRUE)
    \/ \E r \in DOMAIN req : ReqRateSet(r)
    \/ \E r \in DOMAIN req : ReqConcurrentGet(r)
    \/ \E r \in DOMAIN req : ReqL1Get(r)
    \/ \E r \in DOMAIN req : ReqL2GetSync(r)
    \/ \E r \in DOMAIN req : ReqL2GetAsync(r)
    \/ \E r \in DOMAIN req : ReqIncrementGet(r)
    \/ \E r \in DOMAIN req : ReqIncrementSet(r)
    \/ \E r \in DOMAIN req : ReqAddJob(r)
    \/ \E r \in DOMAIN req : ReqSetQueued(r)
    \/ \E r \in DOMAIN req : ReqDecrementGet(r)
    \/ \E r \in DOMAIN req : ReqDecrementSet(r)
    \/ \E i \in 1..Len(bull) : WkClaim(i)
    \/ \E i \in 1..Len(bull) : WkSetProcessing(i)
    \/ \E i \in 1..Len(bull) : WkScrapeReturn(i)
    \/ \E i \in 1..Len(bull) : WkSavePage(i)
    \/ \E i \in 1..Len(bull) : WkSetCompleted(i)
    \/ \E i \in 1..Len(bull) : WkSetFailed(i)
    \/ \E i \in 1..Len(bull) : BullPromote(i)

SpecPriority == InitPriority /\ [][NextPriority]_vars

\* C31: a worker claims a waiting job only when no job waiting at that
\* moment has a strictly higher priority.
C31_PriorityDecidesDequeue ==
    [][\A i \in 1..Len(bull) :
          (bull[i].state = "waiting" /\ Len(bull') = Len(bull) /\ bull'[i].state = "active")
             => \A j \in 1..Len(bull) :
                   bull[j].state = "waiting"
                      => PriorityRank(bull[j].priority) <= PriorityRank(bull[i].priority)]_vars

\* ------------------------------------------------------------------------
\* Attack detection: regular expressions with the g flag keep lastIndex
\* ------------------------------------------------------------------------
MaxDetectCalls == 2

\* the pieces of a pattern: literal text, [\s\S]*? ("any"), \s* ("ws0"),
\* \s+ ("ws1") and \b; a pattern is a list of alternatives, each a list of
\* pieces; letters are compared without case
Lit(text) == [k |-> "lit", v |-> text]

Gap(kind) == [k |-> kind, v |-> <<>>]

WordB == [k |-> "b", v |-> <<>>]

\* XSS_PATTERNS, each with the flags gi
XSS_PATTERNS ==
    << <<<<Lit(<<"<", "s", "c", "r", "i", "p", "t">>), Gap("any"), Lit(<<">">>), Gap("any"), Lit(<<"<", "/", "s", "c", "r", "i", "p", "t", ">">>)>>>>,
       <<<<Lit(<<"<", "i", "f", "r", "a", "m", "e">>), Gap("any"), Lit(<<">">>), Gap("any"), Lit(<<"<", "/", "i", "f", "r", "a", "m", "e", ">">>)>>>>,
       <<<<Lit(<<"j", "a", "v", "a", "s", "c", "r", "i", "p", "t", ":">>)>>>>,
       <<<<Lit(<<"o", "n", "e", "r", "r", "o", "r">>), Gap("ws0"), Lit(<<"=">>)>>>>,
       <<<<Lit(<<"o", "n", "l", "o", "a", "d">>), Gap("ws0"), Lit(<<"=">>)>>>>,
       <<<<Lit(<<"o", "n", "c", "l", "i", "c", "k">>), Gap("ws0"), Lit(<<"=">>)>>>>,
       <<<<Lit(<<"<", "i", "m", "g">>), Gap("any"), Lit(<<"s", "r", "c">>), Gap("any"), Lit(<<">">>)>>>>,
       <<<<Lit(<<"e", "v", "a", "l", "(">>)>>>>,
       <<<<Lit(<<"e", "x", "p", "r", "e", "s", "s", "i", "o", "n", "(">>)>>>>,
       <<<<Lit(<<"<", "o", "b", "j", "e", "c", "t">>), Gap("any"), Lit(<<">">>)>>>>,
       <<<<Lit(<<"<", "e", "m", "b", "e", "d">>), Gap("any"), Lit(<<">">>)>>>> >>

\* SQL_PATTERNS, each with the flags gi
SQL_PATTERNS ==
    << <<<<WordB, Lit(<<"s", "e", "l", "e", "c", "t">>), WordB>>,
         <<WordB, Lit(<<"i", "n", "s", "e", "r", "t">>), WordB>>,
         <<WordB, Lit(<<"u", "p", "d", "a", "t", "e">>), WordB>>,
         <<WordB, Lit(<<"d", "e", "l", "e", "t", "e">>), WordB>>,
         <<WordB, Lit(<<"d", "r", "o", "p">>), WordB>>,
         <<WordB, Lit(<<"c", "r", "e", "a", "t", "e">>), WordB>>,
         <<WordB, Lit(<<"a", "l", "t", "e", "r">>), WordB>>,
         <<WordB, Lit(<<"e", "x", "e", "c">>), WordB>>,
         <<WordB, Lit(<<"e", "x", "e", "c", "u", "t", "e">>), WordB>>>>,
       <<<<Lit(<<"u", "n", "i", "o", "n">>), Gap("ws1"), Lit(<<"s", "e", "l", "e", "c", "t">>)>>>>,
       <<<<Lit(<<"'">>)>>,
         <<Lit(<<"\"">>)>>,
         <<Lit(<<"backtick">>)>>,
         <<Lit(<<";">>)>>,
         <<Lit(<<"-", "-">>)>>,
         <<Lit(<<"/", "*">>)>>,
         <<Lit(<<"*", "/">>)>>,
         <<Lit(<<"x", "p", "_">>)>>>>,
       <<<<Lit(<<"o", "r">>), Gap("ws1"), Lit(<<"1">>), Gap("ws0"), Lit(<<"=">>), Gap("ws0"), Lit(<<"1">>)>>>>,
       <<<<Lit(<<"a", "n", "d">>), Gap("ws1"), Lit(<<"1">>), Gap("ws0"), Lit(<<"=">>), Gap("ws0"), Lit(<<"1">>)>>>> >>

\* PATH_TRAVERSAL_PATTERNS, each with the flag g ([fF] is the only letter in them)
PATH_TRAVERSAL_PATTERNS ==
    << <<<<Lit(<<".", ".">>)>>>>,
       <<<<Lit(<<".", "\\">>)>>>>,
       <<<<Lit(<<".", ".", "%", "2", "f">>)>>>>,
       <<<<Lit(<<"%", "2", "e", "%", "2", "e">>)>>>> >>

\* \w
IsWordChar(c) ==
    \/ c \in {UpperCase[i] : i \in 1..Len(UpperCase)}
    \/ c \in {LowerCase[i] : i \in 1..Len(LowerCase)}
    \/ c \in Digits
    \/ c = "_"

\* \b between the characters at offsets pos - 1 and pos
AtWordBoundary(s, pos) ==
    LET before == pos >= 1 /\ IsWordChar(s[pos])
        after  == pos < Len(s) /\ IsWordChar(s[pos + 1])
    IN before # after

SetMin(S) == CHOOSE x \in S : \A y \in S : x <= y

SetMax(S) == CHOOSE x \in S : \A y \in S : x >= y

\* the whitespace characters from offset pos on
RECURSIVE WhitespaceRun(_, _)
WhitespaceRun(s, pos) ==
    IF pos < Len(s) /\ s[pos + 1] \in Whitespace THEN 1 + WhitespaceRun(s, pos + 1) ELSE 0

\* the offset where a match of the pieces that starts at offset pos ends,
\* or -1
RECURSIVE MatchPieces(_, _, _)
MatchPieces(pieces, s, pos) ==
    IF pieces = <<>> THEN pos
    ELSE LET piece == Head(pieces)
             rest  == Tail(pieces)
         IN IF piece.k = "lit"
            THEN IF pos + Len(piece.v) <= Len(s)
                    /\ toLowerCase(SubSeq(s, pos + 1, pos + Len(piece.v))) = toLowerCase(piece.v)
                 THEN MatchPieces(rest, s, pos + Len(piece.v))
                 ELSE -1
            ELSE IF piece.k = "b"
            THEN IF AtWordBoundary(s, pos) THEN MatchPieces(rest, s, pos) ELSE -1
            ELSE IF piece.k = "any"
            THEN LET ks == {k \in 0..(Len(s) - pos) : MatchPieces(rest, s, pos + k) # -1}
                 IN IF ks = {} THEN -1 ELSE MatchPieces(rest, s, pos + SetMin(ks))
            ELSE LET lo == IF piece.k = "ws1" THEN 1 ELSE 0
                     ks == {k \in lo..WhitespaceRun(s, pos) : MatchPieces(rest, s, pos + k) # -1}
                 IN IF ks = {} THEN -1 ELSE MatchPieces(rest, s, pos + SetMax(ks))

\* the end of the match of the pattern that starts at offset pos (the first
\* alternative that matches), or -1
MatchAt(pattern, s, pos) ==
    LET as == {a \in 1..Len(pattern) : MatchPieces(pattern[a], s, pos) # -1}
    IN IF as = {} THEN -1 ELSE MatchPieces(pattern[SetMin(as)], s, pos)

\* pattern.test(input) of a pattern with the g flag: the search starts at
\* lastIndex; a match moves lastIndex to its end, a failure resets it to 0
test(pattern, input, lastIndex) ==
    LET starts == {st \in lastIndex..Len(input) : MatchAt(pattern, input, st) # -1}
    IN IF lastIndex > Len(input) \/ starts = {}
       THEN [ret |-> FALSE, lastIndex |-> 0]
       ELSE [ret |-> TRUE, lastIndex |-> MatchAt(pattern, input, SetMin(starts))]

\* pattern.test(input) that always searches from the start of the input
test_FromStart(pattern, input, lastIndex) ==
    [ret |-> \E st \in 0..Len(input) : MatchAt(pattern, input, st) # -1, lastIndex |-> 0]

\* patterns.some((pattern) => pattern.test(input)), from pattern i on; li
\* holds the lastIndex of each pattern
RECURSIVE some(_, _, _, _)
some(patterns, i, input, li) ==
    IF i > Len(patterns) THEN [ret |-> FALSE, li |-> li]
    ELSE LET t == test(patterns[i], input, li[i])
         IN IF t.ret THEN [ret |-> TRUE, li |-> [li EXCEPT ![i] = t.lastIndex]]
            ELSE some(patterns, i + 1, input, [li EXCEPT ![i] = 0])

containsXSS(input, li) == some(XSS_PATTERNS, 1, input, li)

containsSQLInjection(input, li) == some(SQL_PATTERNS, 1, input, li)

containsPathTraversal(input, li) == some(PATH_TRAVERSAL_PATTERNS, 1, input, li)

\* the input matches one of the patterns (a pattern used for the first time)
Carries(patterns, input) ==
    \E i \in 1..Len(patterns) : \E st \in 0..Len(input) : MatchAt(patterns[i], input, st) # -1

\* what sanitizeQuery does once the three checks x, q and pt are made
sanitizeQueryAfter(query, R, x, q, pt) ==
    IF x.ret THEN [thrown |-> "xss", ret |-> <<>>, R |-> [R EXCEPT !.xss = x.li]]
    ELSE IF q.ret
    THEN [thrown |-> "sql", ret |-> <<>>, R |-> [R EXCEPT !.xss = x.li, !.sql = q.li]]
    ELSE IF pt.ret
    THEN [thrown |-> "path", ret |-> <<>>,
          R |-> [xss |-> x.li, sql |-> q.li, path |-> pt.li]]
    ELSE [thrown |-> "none", ret |-> sanitizeQuery(query),
          R |-> [xss |-> x.li, sql |-> q.li, path |-> pt.li]]

\* sanitizeQuery as a call: the three checks, each of which throws, then
\* the return expression; R holds the lastIndex of every pattern
sanitizeQueryCall(query, R) ==
    sanitizeQueryAfter(query, R, containsXSS(query, R.xss),
                       containsSQLInjection(query, R.sql),
                       containsPathTraversal(query, R.path))

\* the answer of the route once its three checks x, q and pt are made and
\* sanitizeQuery was called after them with result sn
routeAnswer(query, R, x, q, pt, sn) ==
    IF Len(query) > ROUTE_QUERY_MAX \/ Len(query) < ROUTE_QUERY_MIN
    THEN [code |-> "VALIDATION_ERROR", R |-> R]
    ELSE IF x.ret THEN [code |-> "SECURITY_XSS_DETECTED", R |-> [R EXCEPT !.xss = x.li]]
    ELSE IF q.ret
    THEN [code |-> "SECURITY_SQL_INJECTION_DETECTED",
          R |-> [R EXCEPT !.xss = x.li, !.sql = q.li]]
    ELSE IF pt.ret
    THEN [code |-> "SECURITY_PATH_TRAVERSAL_DETECTED",
          R |-> [xss |-> x.li, sql |-> q.li, path |-> pt.li]]
    ELSE IF sn.thrown # "none" THEN [code |-> "INTERNAL_ERROR", R |-> sn.R]
    ELSE [code |-> "passed", R |-> sn.R]

\* the three checks of the route, made on the patterns as R has them
routeChecks(query, R, x, q, pt) ==
    routeAnswer(query, R, x, q, pt,
                sanitizeQueryCall(query, [xss |-> x.li, sql |-> q.li, path |-> pt.li]))

\* GET /vehicles up to the call of intelligentSearch: the code of the answer
\* ("passed" when the handler goes on) and the lastIndex values it leaves
routeSecurity(query, R) ==
    routeChecks(query, R, containsXSS(query, R.xss),
                containsSQLInjection(query, R.sql),
                containsPathTraversal(query, R.path))

ScriptTag == <<"<", "s", "c", "r", "i", "p", "t", ">", "x", "<", "/", "s", "c", "r", "i", "p", "t", ">">>

JavascriptUrl == <<"j", "a", "v", "a", "s", "c", "r", "i", "p", "t", ":", "x">>

DropTable == <<"d", "r", "o", "p", " ", "t", "a", "b", "l", "e">>

DotDot == <<"a", ".", ".", "b">>

ToyotaCamry == <<"t", "o", "y", "o", "t", "a", " ", "c", "a", "m", "r", "y">>

Padded == <<" ", "h", "o", " ", " ", "l", "a", " ">>

\* a query of 101 characters
TooLong == [i \in 1..(QUERY_MAX_LENGTH + 1) |-> "a"]

\* the queries given to the route and to sanitizeQuery
DetectQueries == {ScriptTag, JavascriptUrl, DropTable, DotDot, ToyotaCamry, Padded, <<"a">>}

\* the queries given to validateQuery
ValidateQueries == DetectQueries \cup {TooLong}

\* the module's patterns before their first use
FreshPatterns ==
    [xss  |-> [i \in 1..Len(XSS_PATTERNS) |-> 0],
     sql  |-> [i \in 1..Len(SQL_PATTERNS) |-> 0],
     path |-> [i \in 1..Len(PATH_TRAVERSAL_PATTERNS) |-> 0]]

\* last holds the lastIndex of every pattern and the calls made so far
detectFrame == <<locks, now, grants, owner, redis, isConnected, l2, req, pf, jobOnly, lastAdm>>

DetectRoute(query) ==
    LET a == routeSecurity(query, last.R)
    IN /\ Len(last.calls) < MaxDetectCalls
       /\ last' = [R |-> a.R,
                   calls |-> Append(last.calls, [op |-> "route", query |-> query,
                                                 code |-> a.code, sanitized |-> <<>>])]
       /\ UNCHANGED detectFrame

DetectSanitize(query) ==
    LET a == sanitizeQueryCall(query, last.R)
    IN /\ Len(last.calls) < MaxDetectCalls
       /\ last' = [R |-> a.R,
                   calls |-> Append(last.calls, [op |-> "sanitizeQuery", query |-> query,
                                                 code |-> a.thrown, sanitized |-> a.ret])]
       /\ UNCHANGED detectFrame

DetectValidate(query) ==
    LET a == validateQuery(query)
    IN /\ Len(last.calls) < MaxDetectCalls
       /\ last' = [R |-> last.R,
                   calls |-> Append(last.calls, [op |-> "validateQuery", query |-> query,
                                                 code |-> IF a.valid THEN "valid" ELSE "invalid",
                                                 sanitized |-> a.sanitized])]
       /\ UNCHANGED detectFrame

InitDetect ==
    /\ locks = <<>>
    /\ now = 0
    /\ owner = <<>>
    /\ redis = <<>>
    /\ isConnected = TRUE
    /\ l2 = <<>>
    /\ req = <<>>
    /\ pf = <<>>
    /\ grants = {}
    /\ last = [R |-> FreshPatterns, calls |-> <<>>]
    /\ jobsDb = <<>>
    /\ bull = <<>>
    /\ nextBatch = 0
    /\ ledger = <<>>
    /\ lastAdm = <<>>

NextDetect ==
    \/ \E q \in DetectQueries : DetectRoute(q)
    \/ \E q \in DetectQueries : DetectSanitize(q)
    \/ \E q \in ValidateQueries : DetectValidate(q)

SpecDetect == InitDetect /\ [][NextDetect]_vars

\* the query matches a signature of one of the three pattern lists
CarriesSignature(query) ==
    \/ Carries(XSS_PATTERNS, query)
    \/ Carries(SQL_PATTERNS, query)
    \/ Carries(PATH_TRAVERSAL_PATTERNS, query)

\* C32: validateQuery refuses every string shorter than 2 or longer than
\* 100 characters and every string that matches an XSS, SQL or path
\* traversal signature, and for a string it accepts it returns the input
\* trimmed with each run of whitespace collapsed to one space.
C32_ValidateQuery ==
    \A i \in 1..Len(last.calls) :
        LET c == last.calls[i]
        IN c.op = "validateQuery"
             => /\ (Len(c.query) < QUERY_MIN_LENGTH \/ Len(c.query) > QUERY_MAX_LENGTH
                      \/ CarriesSignature(c.query))
                     => c.code = "invalid"
                /\ c.code = "valid" => c.sanitized = collapseWhitespace(trim(c.query))

\* C33: every call whose query carries an XSS signature is answered the same
\* way whatever was called before: the route answers SECURITY_XSS_DETECTED
\* and sanitizeQuery throws its XSS error.
C33_DetectionIsStateless ==
    \A i \in 1..Len(last.calls) :
        LET c == last.calls[i]
        IN (c.op \in {"route", "sanitizeQuery"} /\ Carries(XSS_PATTERNS, c.query))
             => /\ c.op = "route" => c.code = "SECURITY_XSS_DETECTED"
                /\ c.op = "sanitizeQuery" => c.code = "xss"

\* ------------------------------------------------------------------------
\* The concurrent-job counter under interleaved increments and decrements
\* ------------------------------------------------------------------------
MaxCounterCalls == 4

CounterKey == ConcurrentKey(RaceIp, NoApiKey)

\* what the counter's key holds (0 when it holds nothing)
CounterValue == IF CounterKey \in DOMAIN redis THEN redis[CounterKey].value ELSE 0

IdleCounterCall == [pc |-> "idle", op |-> "none", current |-> 0]

\* decrementConcurrentJobs that writes current - 1 whatever it read
DecrementSets_Always(current) == TRUE

\* decrementConcurrentJobs: if (current > 0)
DecrementSets(current) == current > 0

\* last counts the decrements that read zero
counterFrame == <<locks, now, grants, owner, l2, pf, jobsDb, bull, ledger, lastAdm>>

\* a call of incrementConcurrentJobs or decrementConcurrentJobs begins
CounterStart(p, op) ==
    /\ req[p].pc = "idle"
    /\ nextBatch < MaxCounterCalls
    /\ nextBatch' = nextBatch + 1
    /\ req' = [req EXCEPT ![p] = [pc |-> "get", op |-> op, current |-> 0]]
    /\ UNCHANGED <<redis, isConnected, last, counterFrame>>

\* const current = (await cache.get(cacheKey)) || 0; a decrement that read
\* 0 ends here
CounterGet(p) ==
    LET current == OrZero(cacheGet(redis, isConnected, now, CounterKey))
    IN /\ req[p].pc = "get"
       /\ req' = [req EXCEPT ![p] =
                    IF req[p].op = "decrement" /\ ~DecrementSets(current)
                    THEN IdleCounterCall
                    ELSE [pc |-> "set", op |-> req[p].op, current |-> current]]
       /\ last' = IF req[p].op = "decrement" /\ current = 0 THEN last + 1 ELSE last
       /\ UNCHANGED <<redis, isConnected, nextBatch, counterFrame>>

\* await cache.set(cacheKey, current + 1, 3600) / (cacheKey, current - 1, 3600)
CounterSet(p) ==
    /\ req[p].pc = "set"
    /\ redis' = cacheSet(redis, isConnected, now, CounterKey,
                         IF req[p].op = "increment" THEN req[p].current + 1
                         ELSE req[p].current - 1,
                         COUNTER_TTL_SECONDS)
    /\ req' = [req EXCEPT ![p] = IdleCounterCall]
    /\ UNCHANGED <<isConnected, nextBatch, last, counterFrame>>

\* the Redis client's 'error' / 'disconnect' and 'connect' events
CounterConnection ==
    /\ isConnected' = ~isConnected
    /\ UNCHANGED <<redis, req, nextBatch, last, counterFrame>>

InitCounter ==
    /\ locks = <<>>
    /\ now = 0
    /\ owner = <<>>
    /\ redis = <<>>
    /\ isConnected = TRUE
    /\ l2 = <<>>
    /\ req = [p \in 1..NumRaceReqs |-> IdleCounterCall]
    /\ pf = <<>>
    /\ grants = {}
    /\ last = 0
    /\ jobsDb = <<>>
    /\ bull = <<>>
    /\ nextBatch = 0
    /\ ledger = <<>>
    /\ lastAdm = <<>>

NextCounter ==
    \/ \E p \in DOMAIN req, op \in {"increment", "decrement"} : CounterStart(p, op)
    \/ \E p \in DOMAIN req : CounterGet(p)
    \/ \E p \in DOMAIN req : CounterSet(p)
    \/ CounterConnection

SpecCounter == InitCounter /\ [][NextCounter]_vars

\* C34: whatever the interleaving of increments and decrements, the counter
\* is never negative, and a decrement that reads zero leaves the store as
\* it was, with the counter at zero.
C34_CounterNeverNegative ==
    /\ [](CounterValue >= 0)
    /\ [][\A p \in DOMAIN req :
             (/\ req[p].pc = "get" /\ req[p].op = "decrement" /\ req'[p] # req[p]
              /\ OrZero(cacheGet(redis, isConnected, now, CounterKey)) = 0)
                => req'[p].pc = "idle" /\ redis' = redis]_vars

\* increments and decrements were made, one decrement read zero while the
\* store was connected, and the counter is at zero
C34_Witness ==
    /\ last > 0
    /\ isConnected
    /\ CounterValue = 0
    /\ CounterKey \in DOMAIN redis
    /\ \A p \in DOMAIN req : req[p].pc = "idle"

\* ------------------------------------------------------------------------
\* ScrapingQueueService
\* ------------------------------------------------------------------------
\* In this part req holds the service object, pf the tasks of the
\* processQueue calls that wait for task.execute(), ledger the promise
\* addTask returned for each call (in call order), nextBatch the number of
\* addTask calls and now the clock.
MaxAdds == 4
MaxQueueAdvances == 2

DEFAULT_MAX_CONCURRENCY == 3
MAX_PER_INTERVAL == 5
INTERVAL_MS == 10000

TaskIds == {"t1", "t2", "t3", "t4"}

\* the priority each caller passes for its task
TaskPriority(taskId) == IF taskId \in {"t3", "t4"} THEN 1 ELSE 0

NewQueue ==
    [tasks |-> <<>>, activeTasks |-> {}, completedCount |-> 0, failedCount |-> 0,
     isPaused |-> FALSE, maxConcurrency |-> DEFAULT_MAX_CONCURRENCY,
     requestTimestamps |-> <<>>]

\* getRequestsInInterval
getRequestsInInterval(Q, t) ==
    LET cutoff == t - INTERVAL_MS
    IN Cardinality({i \in 1..Len(Q.requestTimestamps) : Q.requestTimestamps[i] > cutoff})

\* a concurrency check that never holds a task back
ConcurrencyReached_Never(Q) == FALSE

\* this.activeTasks.size >= this.maxConcurrency
ConcurrencyReached(Q) == Cardinality(Q.activeTasks) >= Q.maxConcurrency

\* the place of task x in a list sorted by priority, highest first: behind
\* every task whose priority is not lower
RECURSIVE InsertByPriority(_, _)
InsertByPriority(sorted, x) ==
    IF sorted = <<>> THEN <<x>>
    ELSE IF Head(sorted).priority >= x.priority
         THEN <<Head(sorted)>> \o InsertByPriority(Tail(sorted), x)
         ELSE <<x>> \o sorted

\* a sort that leaves the list as it is
SortByPriority_Unsorted(tasks) == tasks

\* this.tasks.sort((a, b) => b.priority - a.priority), a stable sort
RECURSIVE SortByPriority(_)
SortByPriority(tasks) ==
    IF tasks = <<>> THEN <<>>
    ELSE InsertByPriority(SortByPriority(SubSeq(tasks, 1, Len(tasks) - 1)), tasks[Len(tasks)])

queueFrame == <<locks, grants, last, owner, redis, isConnected, l2, jobsDb, bull, lastAdm>>

\* addTask: a duplicate id is refused with an Error, otherwise the task is
\* pushed and its promise stays pending
QAddTask(taskId, priority) ==
    LET n    == nextBatch + 1
        dup  == (\E i \in 1..Len(req.tasks) : req.tasks[i].id = taskId)
                   \/ taskId \in req.activeTasks
        task == [n |-> n, id |-> taskId, priority |-> priority]
    IN /\ nextBatch < MaxAdds
       /\ nextBatch' = n
       /\ IF dup
          THEN /\ ledger' = Append(ledger, [id |-> taskId, priority |-> priority,
                                            state |-> "refused", settles |-> 0])
               /\ UNCHANGED req
          ELSE /\ ledger' = Append(ledger, [id |-> taskId, priority |-> priority,
                                            state |-> "pending", settles |-> 0])
               /\ req' = [req EXCEPT !.tasks = Append(@, task)]
       /\ UNCHANGED <<now, pf, queueFrame>>

\* processQueue, from the timer, up to await task.execute() (a tick that
\* returns early changes nothing)
QProcessQueue ==
    LET sorted == SortByPriority(req.tasks)
        task   == Head(sorted)
    IN /\ ~(req.isPaused \/ Len(req.tasks) = 0)
       /\ ~ConcurrencyReached(req)
       /\ ~(getRequestsInInterval(req, now) >= MAX_PER_INTERVAL)
       /\ req' = [req EXCEPT !.tasks = Tail(sorted),
                             !.activeTasks = @ \cup {task.id},
                             !.requestTimestamps = Append(@, now)]
       /\ pf' = pf \cup {task}
       /\ UNCHANGED <<now, nextBatch, ledger, queueFrame>>

\* processQueue after the await: task.execute() has resolved or thrown
QSettle(task, ok) ==
    /\ task \in pf
    /\ pf' = pf \ {task}
    /\ ledger' = [ledger EXCEPT ![task.n].state = IF ok THEN "resolved" ELSE "rejected",
                                ![task.n].settles = @ + 1]
    /\ req' = [req EXCEPT !.completedCount = IF ok THEN @ + 1 ELSE @,
                          !.failedCount = IF ok THEN @ ELSE @ + 1,
                          !.activeTasks = @ \ {task.id}]
    /\ UNCHANGED <<now, nextBatch, queueFrame>>

QPause ==
    /\ ~req.isPaused
    /\ req' = [req EXCEPT !.isPaused = TRUE]
    /\ UNCHANGED <<now, nextBatch, ledger, pf, queueFrame>>

QResume ==
    /\ req.isPaused
    /\ req' = [req EXCEPT !.isPaused = FALSE]
    /\ UNCHANGED <<now, nextBatch, ledger, pf, queueFrame>>

\* clear: this.tasks = []
QClear ==
    /\ req.tasks # <<>>
    /\ req' = [req EXCEPT !.tasks = <<>>]
    /\ UNCHANGED <<now, nextBatch, ledger, pf, queueFrame>>

\* configure({ maxConcurrency })
QConfigure(maxConcurrency) ==
    /\ req.maxConcurrency # maxConcurrency
    /\ req' = [req EXCEPT !.maxConcurrency = maxConcurrency]
    /\ UNCHANGED <<now, nextBatch, ledger, pf, queueFrame>>

\* cleanTimestamps, from its timer
QCleanTimestamps ==
    LET cutoff == now - INTERVAL_MS * 2
        kept   == SelectSeq(req.requestTimestamps, LAMBDA t : t > cutoff)
    IN /\ kept # req.requestTimestamps
       /\ req' = [req EXCEPT !.requestTimestamps = kept]
       /\ UNCHANGED <<now, nextBatch, ledger, pf, queueFrame>>

\* time passes
QAdvance ==
    /\ now < MaxQueueAdvances * INTERVAL_MS
    /\ now' = now + INTERVAL_MS
    /\ UNCHANGED <<req, nextBatch, ledger, pf, queueFrame>>

InitQueue ==
    /\ locks = <<>>
    /\ now = 0
    /\ owner = <<>>
    /\ redis = <<>>
    /\ isConnected = TRUE
    /\ l2 = <<>>
    /\ req = NewQueue
    /\ pf = {}
    /\ grants = {}
    /\ last = NoCall
    /\ jobsDb = <<>>
    /\ bull = <<>>
    /\ nextBatch = 0
    /\ ledger = <<>>
    /\ lastAdm = <<>>

NextQueue ==
    \/ \E id \in TaskIds : QAddTask(id, TaskPriority(id))
    \/ QProcessQueue
    \/ \E t \in pf, ok \in BOOLEAN : QSettle(t, ok)
    \/ QPause
    \/ QResume
    \/ QAdvance

SpecQueue == InitQueue /\ [][NextQueue]_vars

\* C35: at every instant at most maxConcurrency tasks are executing.
C35_AtMostMaxConcurrency ==
    /\ Cardinality(req.activeTasks) <= req.maxConcurrency
    /\ Cardinality(pf) <= req.maxConcurrency

\* the cap is reached while a task is still pending
C35_Witness ==
    /\ Cardinality(pf) = DEFAULT_MAX_CONCURRENCY
    /\ Len(req.tasks) > 0
    /\ ~req.isPaused

\* the tasks this step started
Started == pf' \ pf

\* C36: a tick starts only while the queue is not paused, and the task it
\* starts has the highest priority of the pending tasks and, among those of
\* that priority, is the one added first.
C36_HighestPriorityFirst ==
    [][\A t \in Started :
          /\ ~req.isPaused
          /\ \E i \in 1..Len(req.tasks) : req.tasks[i] = t
          /\ \A i \in 1..Len(req.tasks) :
                /\ req.tasks[i].priority <= t.priority
                /\ req.tasks[i].priority = t.priority => req.tasks[i].n >= t.n]_vars

\* a task of priority 1 added last is running while tasks of priority 0
\* added before it are still pending
C36_Witness ==
    \E t \in pf :
        /\ t.priority = 1
        /\ Len(req.tasks) >= 2
        /\ \A i \in 1..Len(req.tasks) : req.tasks[i].priority = 0 /\ req.tasks[i].n < t.n

\* the values configure is called with
ConfiguredConcurrency == {1, DEFAULT_MAX_CONCURRENCY}

AdminTaskIds == {"t1", "t3"}

\* the queue with its maintenance calls
NextQueueAdmin ==
    \/ \E id \in AdminTaskIds : QAddTask(id, TaskPriority(id))
    \/ QProcessQueue
    \/ \E t \in pf, ok \in BOOLEAN : QSettle(t, ok)
    \/ QPause
    \/ QResume
    \/ QClear
    \/ \E m \in ConfiguredConcurrency : QConfigure(m)
    \/ QCleanTimestamps
    \/ QAdvance

SpecQueueAdmin == InitQueue /\ [][NextQueueAdmin]_vars

\* the promise of call n can still be settled: its task is pending in the
\* queue or a processQueue call is waiting for it
CanStillSettle(n) ==
    \/ \E i \in 1..Len(req.tasks) : req.tasks[i].n = n
    \/ \E t \in pf : t.n = n

\* C37: no promise is settled twice, and the task of every pending promise
\* is still held by the queue or by a running processQueue call, so that a
\* later tick can settle it.
C37_NoPromiseLost ==
    \A n \in 1..Len(ledger) :
        /\ ledger[n].settles <= 1
        /\ ledger[n].state = "pending" => CanStillSettle(n)

\* ------------------------------------------------------------------------
\* Admission while the counter store fails
\* ------------------------------------------------------------------------
\* canSubmitJob during which the store fails although the client counts as
\* connected: client.get throws and get returns null, client.setEx throws
\* and set returns false
AdmCanSubmitJobFailing(clientIp, apiKey) ==
    LET res == canSubmitJob(redis, FALSE, now, clientIp, apiKey)
    IN /\ isConnected
       /\ redis' = res.redis
       /\ lastAdm' = [op |-> "canSubmitJob", clientIp |-> clientIp, apiKey |-> apiKey,
                      connected |-> FALSE,
                      rateBefore |-> StoredCount(redis, now, RateKey(clientIp, apiKey)),
                      jobsBefore |-> StoredCount(redis, now, ConcurrentKey(clientIp, apiKey)),
                      allowed |-> res.allowed, reason |-> res.reason,
                      decFrom |-> DecrementedFrom(clientIp, apiKey)]
       /\ UNCHANGED <<isConnected, admFrame>>

NextOutage ==
    \/ AdmCanSubmitJob(lastAdm.clientIp, lastAdm.apiKey)
    \/ AdmCanSubmitJobFailing(lastAdm.clientIp, lastAdm.apiKey)
    \/ AdmIncrement
    \/ AdmDecrement(lastAdm.clientIp, lastAdm.apiKey)
    \/ AdmConnection
    \/ Tick

SpecOutage == InitAdmission /\ [][NextOutage]_vars

\* C38: a canSubmitJob call made while the store is unavailable is allowed
\* and leaves the store as it was; a call is denied only while the store
\* is reachable, and then for the rate limit or the concurrency cap.
C38_FailOpen ==
    /\ [](lastAdm.op = "canSubmitJob"
            => /\ ~lastAdm.connected => lastAdm.allowed
               /\ ~lastAdm.allowed
                     => /\ lastAdm.connected
                        /\ lastAdm.reason \in {"rate-limit", "concurrent-limit"})
    /\ [][(lastAdm'.op = "canSubmitJob" /\ lastAdm' # lastAdm /\ ~lastAdm'.connected)
             => redis' = redis]_vars

\* a call was allowed during an outage although the identity's stored
\* request count had reached its limit
C38_Witness ==
    /\ lastAdm.op = "canSubmitJob"
    /\ ~lastAdm.connected
    /\ lastAdm.allowed
    /\ lastAdm.rateBefore >= MaxRequests(lastAdm.apiKey)

\* ------------------------------------------------------------------------
\* GracefulShutdown
\* ------------------------------------------------------------------------
\* In this part req holds the GracefulShutdown object and the process: the
\* handlers array, isShuttingDown, where shutdown() is, the handlers invoked
\* so far, the time since the first signal and the codes process.exit was
\* called with.
MaxHandlers == 4

SHUTDOWN_TIMEOUT_MS == 30000
DEFAULT_HANDLER_TIMEOUT_MS == 5000
EXPRESS_HANDLER_TIMEOUT_MS == 10000

\* what a handler does when it is called, and the timeout it was
\* registered with (0: none given)
HandlerBehaviours == {"resolves", "throws", "hangs"}

HandlerTimeouts == {0, EXPRESS_HANDLER_TIMEOUT_MS}

NewShutdown ==
    [handlers |-> <<>>, isShuttingDown |-> FALSE, pc |-> "idle", i |-> 0,
     invoked |-> <<>>, elapsed |-> 0, exit |-> <<>>, cause |-> "none"]

\* registerHandler that appends
registerHandler_Push(handlers, handler) == Append(handlers, handler)

\* registerHandler: this.handlers.unshift(handler)
registerHandler(handlers, handler) == <<handler>> \o handlers

\* timeout || 5000
handlerTimeout(handler) ==
    IF handler.timeout # 0 THEN handler.timeout ELSE DEFAULT_HANDLER_TIMEOUT_MS

shutdownFrame == <<locks, now, grants, last, owner, redis, isConnected, l2, pf, jobOnly, lastAdm>>

\* registerHandler, before any signal; handlers are named by their order
\* of registration
SdRegister(behaviour, timeout) ==
    /\ req.pc = "idle"
    /\ Len(req.handlers) < MaxHandlers
    /\ req' = [req EXCEPT !.handlers =
                  registerHandler(@, [name |-> Len(req.handlers) + 1,
                                      behaviour |-> behaviour, timeout |-> timeout])]
    /\ UNCHANGED shutdownFrame

\* shutdown(signal): the first call arms the hard timeout and enters the
\* loop, a call while isShuttingDown exits with code 1
SdSignal ==
    /\ req.exit = <<>>
    /\ IF req.isShuttingDown
       THEN req' = [req EXCEPT !.pc = "exited", !.exit = <<1>>, !.cause = "second-signal"]
       ELSE req' = [req EXCEPT !.isShuttingDown = TRUE, !.pc = "loop", !.i = 1]
    /\ UNCHANGED shutdownFrame

\* the loop calls the next handler and awaits the race with its timeout
SdInvoke ==
    /\ req.pc = "loop"
    /\ req.i <= Len(req.handlers)
    /\ req' = [req EXCEPT !.pc = "await", !.invoked = Append(@, req.handlers[req.i].name)]
    /\ UNCHANGED shutdownFrame

\* the race is over: the handler resolved, threw (caught, the loop goes
\* on), or its timeout rejected; when the hard timeout is due no later than
\* the handler's timeout, the hard timeout exits with code 1
SdRaceOver ==
    LET h    == req.handlers[req.i]
        done == IF h.behaviour = "hangs" THEN req.elapsed + handlerTimeout(h) ELSE req.elapsed
    IN /\ req.pc = "await"
       /\ IF h.behaviour = "hangs" /\ done >= SHUTDOWN_TIMEOUT_MS
          THEN req' = [req EXCEPT !.pc = "exited", !.exit = <<1>>, !.cause = "hard-timeout",
                                  !.elapsed = SHUTDOWN_TIMEOUT_MS]
          ELSE req' = [req EXCEPT !.pc = "loop", !.i = @ + 1, !.elapsed = done]
       /\ UNCHANGED shutdownFrame

\* after the loop: clearTimeout(hardTimeout); process.exit(0)
SdExit ==
    /\ req.pc = "loop"
    /\ req.i > Len(req.handlers)
    /\ req' = [req EXCEPT !.pc = "exited", !.exit = <<0>>, !.cause = "completed"]
    /\ UNCHANGED shutdownFrame

InitShutdown ==
    /\ locks = <<>>
    /\ now = 0
    /\ owner = <<>>
    /\ redis = <<>>
    /\ isConnected = TRUE
    /\ l2 = <<>>
    /\ req = NewShutdown
    /\ pf = <<>>
    /\ grants = {}
    /\ last = NoCall
    /\ jobsDb = <<>>
    /\ bull = <<>>
    /\ nextBatch = 0
    /\ ledger = <<>>
    /\ lastAdm = <<>>

NextShutdown ==
    \/ \E b \in HandlerBehaviours, t \in HandlerTimeouts : SdRegister(b, t)
    \/ SdSignal
    \/ SdInvoke
    \/ SdRaceOver
    \/ SdExit

SpecShutdown == InitShutdown /\ [][NextShutdown]_vars

\* the handlers invoked so far are the last registered ones, latest first,
\* each once
InvokedInReverseOrder ==
    \A k \in 1..Len(req.invoked) : req.invoked[k] = Len(req.handlers) - k + 1

AllInvoked == Len(req.invoked) = Len(req.handlers)

\* C39 as stated: handlers run latest first, each once; a handler that
\* throws or times out is followed by the next one; unless a second signal
\* forced the exit, the process exits with code 0 after every handler has
\* been invoked; a second signal exits with code 1 without a second pass.
C39_ShutdownRunsAllHandlers ==
    /\ InvokedInReverseOrder
    /\ req.pc = "exited"
          => \/ req.cause = "second-signal" /\ req.exit = <<1>>
             \/ req.exit = <<0>> /\ AllInvoked

\* C39 with the hard timeout: as above, unless a second signal or the
\* shutdown timeout (30 s from the first signal) forced the exit, which
\* then has code 1.
C39_ShutdownWithinTimeout ==
    /\ [](/\ InvokedInReverseOrder
          /\ req.pc = "exited"
                => \/ req.cause \in {"second-signal", "hard-timeout"} /\ req.exit = <<1>>
                   \/ req.exit = <<0>> /\ AllInvoked
          /\ (req.pc = "exited" /\ req.cause = "hard-timeout")
                => req.elapsed >= SHUTDOWN_TIMEOUT_MS)
    /\ [][/\ (req.pc = "await" /\ req'.pc = "loop") => req'.i = req.i + 1
          /\ (req.pc = "await" /\ req' # req /\ req.handlers[req.i].behaviour # "hangs")
                => req'.pc \in {"loop", "exited"} /\ req'.cause # "hard-timeout"
          /\ req.pc = "exited" => req' = req]_vars

\* the shutdown ended with code 0 after four handlers, one that threw and
\* one that timed out before the last
C39_Witness ==
    /\ req.pc = "exited"
    /\ req.exit = <<0>>
    /\ req.invoked = <<4, 3, 2, 1>>
    /\ req.handlers[1].behaviour = "throws"
    /\ req.handlers[2].behaviour = "hangs"

\* ------------------------------------------------------------------------
\* ProxyRotatorService
\* ------------------------------------------------------------------------
\* In this part req holds the ProxyRotatorService object (proxies, the
\* proxyStats map by proxy key, currentIndex, enabled), now is Date.now()
\* counted from the start of the process, and last is what the step just
\* taken returned when it was a getNextProxy call.
MaxProxyCount == 4
MaxProxyAdvances == 3
ProxyStepMs == 150000

COOLDOWN_PERIOD_MS == 300000
FAIL_COUNT_LIMIT == 3
ResponseTimeMs == 100

ProxyKeys == {"p1:8080", "p2:8080"}

\* PROXIES unset, or two proxies
ProxyEnvs == {<<>>, <<"p1:8080", "p2:8080">>}

NoProxy == "null"

NoProxyCall == [op |-> "none"]

NewProxyStats(key) ==
    [proxy |-> key, successCount |-> 0, failCount |-> 0, lastUsed |-> 0,
     avgResponseTime |-> 0, isHealthy |-> TRUE]

\* the constructor: loadProxiesFromEnv
NewRotator(env) ==
    [proxies |-> env,
     proxyStats |-> [k \in {env[i] : i \in 1..Len(env)} |-> NewProxyStats(k)],
     currentIndex |-> 0,
     enabled |-> Len(env) > 0]

isEnabled(R) == R.enabled /\ Len(R.proxies) > 0

\* a cooldown that is always over
CooldownPassed_Always(stats, t) == TRUE

\* timeSinceLastUse > cooldownPeriod
CooldownPassed(stats, t) == t - stats.lastUsed > COOLDOWN_PERIOD_MS

\* what getNextProxy does with the proxy at the index
Usable(R, index, t) ==
    LET stats == R.proxyStats[R.proxies[index + 1]]
    IN stats.isHealthy \/ CooldownPassed(stats, t)

\* the loop of getNextProxy from attempt i: the index the call ends on,
\* the proxy it returns and the attempts it made
RECURSIVE getNextProxyFrom(_, _, _, _)
getNextProxyFrom(R, index, i, t) ==
    IF i >= 2 * Len(R.proxies)
    THEN [currentIndex |-> index, ret |-> NoProxy, attempts |-> i]
    ELSE LET next == (index + 1) % Len(R.proxies)
         IN IF Usable(R, next, t)
            THEN [currentIndex |-> next, ret |-> R.proxies[next + 1], attempts |-> i + 1]
            ELSE getNextProxyFrom(R, next, i + 1, t)

\* failRate > 0.5 || stats.failCount > 3, on the counts after the failure
MarksUnhealthy(stats) ==
    \/ 2 * stats.failCount > stats.successCount + stats.failCount
    \/ stats.failCount > FAIL_COUNT_LIMIT

proxyFrame == <<locks, grants, owner, redis, isConnected, l2, pf, jobOnly, lastAdm>>

PxGetNextProxy ==
    /\ IF ~isEnabled(req)
       THEN /\ req' = req
            /\ last' = [op |-> "getNextProxy", ret |-> NoProxy, attempts |-> 0]
       ELSE LET r == getNextProxyFrom(req, req.currentIndex, 0, now)
            IN /\ req' = [req EXCEPT !.currentIndex = r.currentIndex,
                                     !.proxyStats = IF r.ret = NoProxy THEN @
                                                    ELSE [@ EXCEPT ![r.ret].isHealthy = TRUE]]
               /\ last' = [op |-> "getNextProxy", ret |-> r.ret, attempts |-> r.attempts]
    /\ UNCHANGED <<now, proxyFrame>>

PxRecordSuccess(key) ==
    /\ IF key \in DOMAIN req.proxyStats
       THEN /\ req.proxyStats[key].successCount < MaxProxyCount
            /\ req' = [req EXCEPT !.proxyStats[key] =
                         LET n == @.successCount + 1
                         IN [@ EXCEPT !.successCount = n,
                                      !.lastUsed = now,
                                      !.isHealthy = TRUE,
                                      !.avgResponseTime =
                                          (@ * (n - 1) + ResponseTimeMs) \div n]]
       ELSE req' = req
    /\ last' = NoProxyCall
    /\ UNCHANGED <<now, proxyFrame>>

PxRecordFailure(key) ==
    /\ IF key \in DOMAIN req.proxyStats
       THEN /\ req.proxyStats[key].failCount < MaxProxyCount
            /\ req' = [req EXCEPT !.proxyStats[key] =
                         LET counted == [@ EXCEPT !.failCount = @ + 1, !.lastUsed = now]
                         IN IF MarksUnhealthy(counted)
                            THEN [counted EXCEPT !.isHealthy = FALSE]
                            ELSE counted]
       ELSE req' = req
    /\ last' = NoProxyCall
    /\ UNCHANGED <<now, proxyFrame>>

PxAdvance ==
    /\ now < MaxProxyAdvances * ProxyStepMs
    /\ now' = now + ProxyStepMs
    /\ last' = NoProxyCall
    /\ UNCHANGED <<req, proxyFrame>>

InitProxy ==
    /\ locks = <<>>
    /\ now = 0
    /\ owner = <<>>
    /\ redis = <<>>
    /\ isConnected = TRUE
    /\ l2 = <<>>
    /\ req \in {NewRotator(env) : env \in ProxyEnvs}
    /\ pf = <<>>
    /\ grants = {}
    /\ last = NoProxyCall
    /\ jobsDb = <<>>
    /\ bull = <<>>
    /\ nextBatch = 0
    /\ ledger = <<>>
    /\ lastAdm = <<>>

NextProxy ==
    \/ PxGetNextProxy
    \/ \E key \in ProxyKeys : PxRecordSuccess(key)
    \/ \E key \in ProxyKeys : PxRecordFailure(key)
    \/ PxAdvance

SpecProxy == InitProxy /\ [][NextProxy]_vars

\* a proxy that is marked unhealthy and was last used less than the
\* cooldown ago
CoolingDown(key) ==
    /\ ~req.proxyStats[key].isHealthy
    /\ now - req.proxyStats[key].lastUsed < COOLDOWN_PERIOD_MS

\* a proxy that is healthy or past its cooldown
Available(key) ==
    \/ req.proxyStats[key].isHealthy
    \/ now - req.proxyStats[key].lastUsed > COOLDOWN_PERIOD_MS

\* C40: a getNextProxy call never returns a proxy that was marked
\* unhealthy and last used less than 5 minutes before; it returns null when
\* no proxy is healthy or past its cooldown, and a proxy otherwise; a proxy
\* becomes healthy again only by recordSuccess or by a getNextProxy call that
\* returns it.
C40_UnhealthyProxySkipped ==
    [][/\ last'.op = "getNextProxy"
          => /\ last'.ret # NoProxy
                  => last'.ret \in DOMAIN req.proxyStats /\ ~CoolingDown(last'.ret)
             /\ (\A key \in DOMAIN req.proxyStats : ~Available(key))
                  => last'.ret = NoProxy
             /\ (\E key \in DOMAIN req.proxyStats : Available(key))
                  => last'.ret # NoProxy /\ Available(last'.ret)
       /\ \A key \in DOMAIN req.proxyStats :
             (~req.proxyStats[key].isHealthy /\ req'.proxyStats[key].isHealthy)
                => \/ req'.proxyStats[key].successCount = req.proxyStats[key].successCount + 1
                   \/ last'.op = "getNextProxy" /\ last'.ret = key /\ Available(key)]_vars

\* getNextProxy skipped the first proxy, unhealthy and last used less than
\* five minutes ago although time has passed since, and returned the second
C40_Witness ==
    /\ last.op = "getNextProxy"
    /\ last.ret = "p2:8080"
    /\ last.attempts = 2
    /\ ~req.proxyStats["p1:8080"].isHealthy
    /\ req.proxyStats["p1:8080"].lastUsed < now
    /\ now - req.proxyStats["p1:8080"].lastUsed < COOLDOWN_PERIOD_MS

====
